---------------------------- MODULE Spec2Model ----------------------------
(***************************************************************************)
(* Model of the brokerage-statement normaliser: the three extractors       *)
(* (trades, financial operations, transfers) and the aggregator            *)
(* parse_full_statement_xml.                                               *)
(*                                                                         *)
(* Representation.                                                         *)
(*  - A Python str is a sequence of chunks (TLA+ strings).  A chunk is a   *)
(*    run of characters; " " is a whitespace chunk.  Cyrillic literals of  *)
(*    the source are transliterated ("НДФЛ" is <<"NDFL">>, "Дивиденды" is  *)
(*    <<"Dividend","y">>).  `x in y` is contiguous-subsequence containment,*)
(*    str.lower() maps every chunk, str.strip() drops whitespace chunks    *)
(*    at both ends.                                                        *)
(*  - Optional[str] is a record [none, s]; an XML attribute is the same    *)
(*    record (none = the attribute is missing).                            *)
(*  - A numeric attribute is [k, v]: k = "absent", "garbage" (unparsable  *)
(*    text) or "num" with v the value in tenths.                           *)
(*  - A datetime is [none, day, aware]: none = Python None, day an         *)
(*    abstract instant, aware = the datetime carries a UTC offset.         *)
(*  - Amounts (Decimal / float) are integers.                              *)
(***************************************************************************)
EXTENDS Integers, Sequences, FiniteSets, TLC

VARIABLES
    input,           \* path_or_bytes: [kind, details, rns, malformed]
    pc,              \* position inside parse_full_statement_xml
    trades,          \* ops list of parse_trades_from_xml
    trade_stats,     \* stats dict of parse_trades_from_xml
    t_i,             \* Details rows consumed by the trade scan
    tmp_trades,      \* __xml_trades_tmp__.xml exists
    fin_ops,         \* ops list of _parse_root
    fin_stats,       \* stats dict of the financial extractor
    f_i,             \* rn rows consumed by the financial scan
    transfers,       \* ops list of parse_transfers_from_xml
    transfer_stats,  \* stats dict of parse_transfers_from_xml
    x_i,             \* Details rows consumed by the transfer scan
    tmp_transfers,   \* __xml_transfers_tmp__.xml exists
    result,          \* value returned by parse_full_statement_xml
    raised,          \* an exception left parse_full_statement_xml
    conc             \* two parse_trades_from_xml calls in one directory

vars == <<input, pc, trades, trade_stats, t_i, tmp_trades, fin_ops, fin_stats,
          f_i, transfers, transfer_stats, x_i, tmp_transfers, result, raised,
          conc>>

(***************************************************************************)
(* Strings                                                                 *)
(***************************************************************************)
WS == " "

NoneStr == [none |-> TRUE, s |-> <<>>]

Str(s) == [none |-> FALSE, s |-> s]

\* str.lower() on one chunk: the capitalised chunks of the vocabulary.
LowerTok(t) ==
    CASE t = "NDFL" -> "ndfl"
      [] t = "Komissiya" -> "komissiya"
      [] t = "Protsenty" -> "protsenty"
      [] t = "Dividend" -> "dividend"
      [] t = "Kupony" -> "kupony"
      [] t = "Pogashenie" -> "pogashenie"
      [] t = "Prihod" -> "prihod"
      [] t = "DS" -> "ds"
      [] t = "Chastichnoe" -> "chastichnoe"
      [] t = "Vyvod" -> "vyvod"
      [] t = "Raschety" -> "raschety"
      [] t = "Zaimy" -> "zaimy"
      [] t = "NKD" -> "nkd"
      [] t = "Pokupka/Prodazha" -> "pokupka/prodazha"
      [] t = "Perevod" -> "perevod"
      [] t = "Konvertatsiya" -> "konvertatsiya"
      [] t = "Vznos" -> "vznos"
      [] t = "PEREVOD" -> "perevod"
      [] t = "KONVERTATSIYA" -> "konvertatsiya"
      [] OTHER -> t

Lower(txt) == [i \in DOMAIN txt |-> LowerTok(txt[i])]

\* pat in txt
Contains(pat, txt) ==
    \E i \in 0..(Len(txt) - Len(pat)) : SubSeq(txt, i + 1, i + Len(pat)) = pat

RECURSIVE LStrip(_)
LStrip(txt) ==
    IF txt # <<>> /\ Head(txt) = WS THEN LStrip(Tail(txt)) ELSE txt

RECURSIVE RStrip(_)
RStrip(txt) ==
    IF txt # <<>> /\ txt[Len(txt)] = WS
    THEN RStrip(SubSeq(txt, 1, Len(txt) - 1))
    ELSE txt

\* str.strip()
Strip(txt) == RStrip(LStrip(txt))

(***************************************************************************)
(* Dates                                                                   *)
(***************************************************************************)
NoDate == [none |-> TRUE, day |-> 0, aware |-> FALSE]

Naive(d) == [none |-> FALSE, day |-> d, aware |-> FALSE]

Aware(d) == [none |-> FALSE, day |-> d, aware |-> TRUE]

(***************************************************************************)
(* OperationDTO                                                            *)
(***************************************************************************)
OperationDTO(date, operation_type, payment_sum, ticker, isin, quantity, comment, operation_id, commission) ==
    [date |-> date, operation_type |-> operation_type,
     payment_sum |-> payment_sum, ticker |-> ticker, isin |-> isin,
     quantity |-> quantity, comment |-> comment,
     operation_id |-> operation_id, commission |-> commission]

(***************************************************************************)
(* constants.py and the tables of xml_fin_ops.py                           *)
(***************************************************************************)
SKIP_OPERATIONS ==
    { <<"Raschety", WS, "po", WS, "sdelke">>,
      <<"Zaimy", WS, "overnight">>,
      <<"NKD", WS, "po", WS, "sdelke">>,
      <<"Pokupka/Prodazha">>,
      <<"Pokupka/Prodazha", WS, "(repo)">>,
      <<"Perevod", "y", WS, "mezhdu", WS, "ploshchadkami">> }

\* Insertion order of the dict is the iteration order.
OPERATION_TYPE_MAP ==
    << [key |-> <<"Dividend", "y">>, type |-> <<"dividend">>],
       [key |-> <<"Kupony">>, type |-> <<"coupon">>],
       [key |-> <<"Pogashenie", WS, "obligatsii">>, type |-> <<"repayment">>],
       [key |-> <<"Prihod", WS, "DS">>, type |-> <<"deposit">>],
       [key |-> <<"Chastichnoe", WS, "pogashenie", WS, "obligatsii">>,
        type |-> <<"amortization">>],
       [key |-> <<"Vyvod", WS, "DS">>, type |-> <<"withdrawal">>] >>

TRANSFER_COMMENT_PATTERNS ==
    << [type |-> <<"coupon">>,
        patterns |-> << <<"pogashenie", WS, "kupona">>,
                        <<"pogashenie", "m", WS, "kupona">> >>],
       [type |-> <<"amortization">>,
        patterns |-> << <<"chastichnoe", WS, "pogashenie", WS, "nominala">>,
                        <<"chastichnom", WS, "pogashenii", WS, "nominala">> >>],
       [type |-> <<"repayment">>,
        patterns |-> << <<"polnoe", WS, "pogashenie", WS, "nominala">>,
                        <<"polnom", WS, "pogashenii", WS, "nominala">> >>],
       [type |-> <<"deposit">>,
        patterns |-> << <<"iz", WS, "ao", WS, "\"", "alfa-bank">>,
                        <<"iz", WS, "ao", WS, "alfa-bank">> >>],
       [type |-> <<"dividend">>,
        patterns |-> << <<"dividend">> >>],
       [type |-> <<"withdrawal">>,
        patterns |-> << <<"spisanie", WS, "po", WS, "porucheniyu", WS, "klienta">>,
                        <<"vozvrat", WS, "sredstv", WS, "po", WS, "dog">> >>],
       [type |-> <<"other_income">>,
        patterns |-> << <<"vyplata", WS, "po", WS, "porucheniyu", WS, "klienta",
                          WS, "v", WS, "ramkah">> >>],
       [type |-> <<"_skip_">>,
        patterns |-> << <<"perevod", WS, "denezhnyh", WS, "sredstv">> >>] >>

\* handler(name, amount, comment): yes when the test holds of amount, else no.
DYNAMIC_TYPE_HANDLERS ==
    << [pattern |-> <<"NDFL">>, test |-> "gt0",
        yes |-> <<"refund">>, no |-> <<"withholding">>],
       [pattern |-> <<"Komissiya">>, test |-> "gt0",
        yes |-> <<"commission_refund">>, no |-> <<"commission">>],
       [pattern |-> <<"Protsenty", WS, "po", WS, "zaimam">>, test |-> "ne0",
        yes |-> <<"other_income">>, no |-> <<"other_expense">>] >>


(***************************************************************************)
(* Small helpers                                                           *)
(***************************************************************************)
Min(S) == CHOOSE x \in S : \A y \in S : x <= y

Last(seq) == seq[Len(seq)]

\* dict.get(key) is truthy: the key is present and its value is not "".
HasError(stats) == "error" \in DOMAIN stats /\ stats.error # ""

(***************************************************************************)
(* xml_fin_ops.py: helpers                                                 *)
(***************************************************************************)
\* _safe_attr(elem, name), elem present: None for a missing attribute,
\* otherwise the stripped value, None when that is empty.
SafeAttr(attr) ==
    IF attr.none THEN NoneStr
    ELSE IF Strip(attr.s) = <<>> THEN NoneStr ELSE Str(Strip(attr.s))

\* x or ""
OrEmpty(opt) == IF opt.none THEN <<>> ELSE opt.s

\* _parse_iso_datetime: datetime.fromisoformat keeps a UTC offset.
ParseIsoDatetime(attr) ==
    IF attr.k = "iso" THEN [none |-> FALSE, day |-> attr.day, aware |-> attr.aware]
    ELSE NoDate

\* _extract_currency_and_amount / text-box fallback / Decimal("0"):
\* the amount of the row, zero when none resolves.
AmountOf(volume) == IF volume.k = "num" THEN volume.v ELSE 0

\* ApplyHandler with "amount >= 0" in place of "amount > 0".
ApplyHandlerNonNegative(h, amount) ==
    IF h.test = "gt0"
    THEN (IF amount >= 0 THEN h.yes ELSE h.no)
    ELSE (IF amount # 0 THEN h.yes ELSE h.no)

\* The handler lambdas of DYNAMIC_TYPE_HANDLERS.
ApplyHandler(h, amount) ==
    IF h.test = "gt0"
    THEN (IF amount > 0 THEN h.yes ELSE h.no)
    ELSE (IF amount # 0 THEN h.yes ELSE h.no)

\* Groups of TRANSFER_COMMENT_PATTERNS with a pattern inside the comment.
CommentGroups(comment_lower) ==
    { g \in DOMAIN TRANSFER_COMMENT_PATTERNS :
        \E p \in DOMAIN TRANSFER_COMMENT_PATTERNS[g].patterns :
            Contains(TRANSFER_COMMENT_PATTERNS[g].patterns[p], comment_lower) }

Returns(t) == [exc |-> FALSE, type |-> t]

Raises == [exc |-> TRUE, type |-> <<>>]

\* DetermineOperationType with the static table (step 2) consulted before
\* the dynamic handlers (step 1).
DetermineOperationTypeStaticFirst(oper_type_val, comment_text, payment_sum) ==
    IF oper_type_val.none THEN Raises
    ELSE
    LET val == oper_type_val.s
        oper_lower == Lower(val)
        comment_lower == Lower(comment_text)
        dyn == { i \in DOMAIN DYNAMIC_TYPE_HANDLERS :
                   Contains(Lower(DYNAMIC_TYPE_HANDLERS[i].pattern), oper_lower) }
        exact == { i \in DOMAIN OPERATION_TYPE_MAP :
                     OPERATION_TYPE_MAP[i].key = val }
        sub == { i \in DOMAIN OPERATION_TYPE_MAP :
                   Contains(Lower(OPERATION_TYPE_MAP[i].key), oper_lower) }
        grp == CommentGroups(comment_lower)
    IN  IF exact # {}
        THEN Returns(OPERATION_TYPE_MAP[Min(exact)].type)
        ELSE IF sub # {}
        THEN Returns(OPERATION_TYPE_MAP[Min(sub)].type)
        ELSE IF dyn # {}
        THEN Returns(ApplyHandler(DYNAMIC_TYPE_HANDLERS[Min(dyn)], payment_sum))
        ELSE IF Contains(<<"perevod">>, oper_lower)
        THEN (IF grp # {}
              THEN Returns(TRANSFER_COMMENT_PATTERNS[Min(grp)].type)
              ELSE Returns(<<"transfer">>))
        ELSE IF Strip(val) = <<>> /\ grp # {}
        THEN Returns(TRANSFER_COMMENT_PATTERNS[Min(grp)].type)
        ELSE IF Strip(val) # <<>> THEN Returns(Strip(val))
        ELSE Returns(<<"unknown">>)

\* _determine_operation_type(oper_type_val, comment_text, payment_sum).
\* oper_type_val is the Optional[str] the caller passes; None.lower()
\* raises AttributeError on the first line.
DetermineOperationType(oper_type_val, comment_text, payment_sum) ==
    IF oper_type_val.none THEN Raises
    ELSE
    LET val == oper_type_val.s
        oper_lower == Lower(val)
        comment_lower == Lower(comment_text)
        dyn == { i \in DOMAIN DYNAMIC_TYPE_HANDLERS :
                   Contains(Lower(DYNAMIC_TYPE_HANDLERS[i].pattern), oper_lower) }
        exact == { i \in DOMAIN OPERATION_TYPE_MAP :
                     OPERATION_TYPE_MAP[i].key = val }
        sub == { i \in DOMAIN OPERATION_TYPE_MAP :
                   Contains(Lower(OPERATION_TYPE_MAP[i].key), oper_lower) }
        grp == CommentGroups(comment_lower)
    IN  IF dyn # {}
        THEN Returns(ApplyHandler(DYNAMIC_TYPE_HANDLERS[Min(dyn)], payment_sum))
        ELSE IF exact # {}
        THEN Returns(OPERATION_TYPE_MAP[Min(exact)].type)
        ELSE IF sub # {}
        THEN Returns(OPERATION_TYPE_MAP[Min(sub)].type)
        ELSE IF Contains(<<"perevod">>, oper_lower)
        THEN (IF grp # {}
              THEN Returns(TRANSFER_COMMENT_PATTERNS[Min(grp)].type)
              ELSE Returns(<<"transfer">>))
        ELSE IF Strip(val) = <<>> /\ grp # {}
        THEN Returns(TRANSFER_COMMENT_PATTERNS[Min(grp)].type)
        ELSE IF Strip(val) # <<>> THEN Returns(Strip(val))
        ELSE Returns(<<"unknown">>)

\* oper_type_val of a row: "" when the row has no oper_type element,
\* otherwise _safe_attr of its oper_type attribute (possibly None).
OperTypeVal(rn) == IF rn.oper_elem THEN SafeAttr(rn.oper_type) ELSE Str(<<>>)

\* comment_text = _safe_attr(comment_elem, "comment") or ""
CommentText(rn) == OrEmpty(SafeAttr(rn.comment))

\* LabelSource without the fallback to the comment.
LabelSourceLabelOnly(rn) == Strip(OrEmpty(OperTypeVal(rn)))

\* label_source = (oper_type_val or "").strip() or (comment_text or "").strip()
LabelSource(rn) ==
    IF Strip(OrEmpty(OperTypeVal(rn))) # <<>>
    THEN Strip(OrEmpty(OperTypeVal(rn)))
    ELSE Strip(CommentText(rn))

\* ShouldSkip without the two .lower() calls.
ShouldSkipCaseSensitive(rn) ==
    \/ /\ LabelSource(rn) # <<>>
       /\ \E sp \in SKIP_OPERATIONS : Contains(sp, LabelSource(rn))
    \/ /\ LabelSource(rn) = <<>>
       /\ AmountOf(rn.volume) = 0

\* should_skip of _parse_root.
ShouldSkip(rn) ==
    \/ /\ LabelSource(rn) # <<>>
       /\ \E sp \in SKIP_OPERATIONS : Contains(Lower(sp), Lower(LabelSource(rn)))
    \/ /\ LabelSource(rn) = <<>>
       /\ AmountOf(rn.volume) = 0

\* date_field = settlement_date_dt or rn_last_update_dt
DateField(rn) ==
    IF ~ParseIsoDatetime(rn.settlement_date).none
    THEN ParseIsoDatetime(rn.settlement_date)
    ELSE ParseIsoDatetime(rn.last_update)

\* FinRowOutcome without the `mapped_type == "_skip_"` test of lines 360-363.
FinRowOutcomeKeepsSentinel(rn) ==
    LET mapped == DetermineOperationType(OperTypeVal(rn), CommentText(rn),
                                         AmountOf(rn.volume))
        dto == OperationDTO(DateField(rn), mapped.type, AmountOf(rn.volume),
                            <<>>, <<>>, 0, CommentText(rn), <<>>, 0)
    IN  IF ShouldSkip(rn) THEN [kind |-> "skip", dto |-> dto]
        ELSE IF mapped.exc THEN [kind |-> "exc", dto |-> dto]
        ELSE [kind |-> "emit", dto |-> dto]

\* One iteration of `for rn in rn_nodes`: what happens to the row.
\* kind: "skip" (ignore list / empty-zero), "drop" (_skip_ sentinel),
\* "emit" (dto appended), "exc" (exception reaches the except of _parse_root).
FinRowOutcome(rn) ==
    LET mapped == DetermineOperationType(OperTypeVal(rn), CommentText(rn),
                                         AmountOf(rn.volume))
        dto == OperationDTO(DateField(rn), mapped.type, AmountOf(rn.volume),
                            <<>>, <<>>, 0, CommentText(rn), <<>>, 0)
    IN  IF ShouldSkip(rn) THEN [kind |-> "skip", dto |-> dto]
        ELSE IF mapped.exc THEN [kind |-> "exc", dto |-> dto]
        ELSE IF mapped.type = <<"_skip_">> THEN [kind |-> "drop", dto |-> dto]
        ELSE [kind |-> "emit", dto |-> dto]

(***************************************************************************)
(* xml_trades.py: helpers                                                  *)
(***************************************************************************)
\* to_float_safe: None, "", "-", unparsable text give 0.0.
ToFloatSafe(attr) == IF attr.k = "num" THEN attr.v ELSE 0

\* round(): to the nearest integer, ties to the even one (v in tenths).
RoundHalfEven(v) ==
    LET q == v \div 10
        r == v % 10
    IN  IF r < 5 THEN q
        ELSE IF r > 5 THEN q + 1
        ELSE IF q % 2 = 0 THEN q ELSE q + 1

\* to_int_safe = int(round(float(to_float_safe(v))))
ToIntSafe(attr) == RoundHalfEven(ToFloatSafe(attr))

Abs(n) == IF n < 0 THEN -n ELSE n

\* attrib.get(key) is truthy: the attribute is present and not "".
Truthy(attr) == attr.k # "absent"

\* parse_datetime_from_text: "dd.mm.yyyy HH:MM[:SS]" anywhere in the text,
\* or "%Y-%m-%dT%H:%M:%S" exactly (a UTC offset does not fit the format).
\* strptime gives a naive datetime.
ParseDatetimeFromText(attr) ==
    IF attr.k = "dmy" THEN Naive(attr.day)
    ELSE IF attr.k = "iso" /\ ~attr.aware THEN Naive(attr.day)
    ELSE NoDate

\* The alias loop of lines 135-140 over the modelled aliases, in order:
\* a truthy alias that does not parse leaves date_val None and the loop
\* goes on to the next alias.
TradeDateAliases(d) == <<d.db_time, d.settlement_time>>

\* TradeDateVal with a `break` after the first truthy alias, parsed or not.
TradeDateValFirstNonEmpty(d) ==
    LET set == { i \in DOMAIN TradeDateAliases(d) :
                   Truthy(TradeDateAliases(d)[i]) }
    IN  IF set = {} THEN NoDate
        ELSE ParseDatetimeFromText(TradeDateAliases(d)[Min(set)])

TradeDateVal(d) ==
    LET ok == { i \in DOMAIN TradeDateAliases(d) :
                  /\ Truthy(TradeDateAliases(d)[i])
                  /\ ~ParseDatetimeFromText(TradeDateAliases(d)[i]).none }
    IN  IF ok = {} THEN NoDate
        ELSE ParseDatetimeFromText(TradeDateAliases(d)[Min(ok)])

\* Chunks that are a match of ISIN_RE.
IsinTokens == {"RU0009029540"}

\* extract_isin_from_attr: the ISIN found in the text, else the stripped text.
ExtractIsinFromAttr(attr) ==
    IF attr.none \/ attr.s = <<>> THEN <<>>
    ELSE LET hit == { i \in DOMAIN attr.s : attr.s[i] \in IsinTokens }
         IN  IF hit # {} THEN <<attr.s[Min(hit)]>> ELSE Strip(attr.s)

\* Chunks that fully match [A-Za-z0-9\-\.]{1,8}.
TickerTokens == {"SBER", "GAZP"}

\* str.split()[0]: the first whitespace-delimited token.
FirstToken(txt) ==
    LET t == LStrip(txt)
        ws == { i \in DOMAIN t : t[i] = WS }
    IN  IF ws = {} THEN t ELSE SubSeq(t, 1, Min(ws) - 1)

\* extract_ticker_from_name: [exc, v]; exc = IndexError of split()[0] on a
\* name made of whitespace only.
ExtractTickerFromName(name) ==
    IF name = <<>> THEN [exc |-> FALSE, v |-> <<>>]
    ELSE IF Strip(name) = <<>> THEN [exc |-> TRUE, v |-> <<>>]
    ELSE IF Len(FirstToken(name)) = 1 /\ FirstToken(name)[1] \in TickerTokens
    THEN [exc |-> FALSE, v |-> FirstToken(name)]
    ELSE [exc |-> FALSE, v |-> <<>>]

\* TradeRowOutcome with quantity=int(round(float(qty))), without abs().
TradeRowOutcomeSigned(d) ==
    LET qty == ToIntSafe(d.qty)
        date_val == TradeDateVal(d)
        ticker == ExtractTickerFromName(OrEmpty(d.p_name))
        commission == ToFloatSafe(d.bank_tax)
        dto == OperationDTO(date_val,
                            IF qty > 0 THEN <<"buy">> ELSE <<"sale">>,
                            ToFloatSafe(d.summ_trade), ticker.v,
                            ExtractIsinFromAttr(d.isin_reg), 10 * qty,
                            OrEmpty(d.place_name), OrEmpty(d.trade_no),
                            commission)
    IN  IF qty = 0 THEN [kind |-> "no_qty", dto |-> dto, commission |-> 0]
        ELSE IF date_val.none
        THEN [kind |-> "no_date", dto |-> dto, commission |-> 0]
        ELSE IF ticker.exc THEN [kind |-> "exc", dto |-> dto, commission |-> 0]
        ELSE [kind |-> "emit", dto |-> dto, commission |-> commission]

\* One iteration of the iterparse loop on a Details element.
\* kind: "no_qty", "no_date", "emit", or "exc" (an exception outside the
\* inner try, caught by the except of line 193).  commission is what the
\* iteration adds to stats["total_commission"].
TradeRowOutcome(d) ==
    LET qty == ToIntSafe(d.qty)
        date_val == TradeDateVal(d)
        ticker == ExtractTickerFromName(OrEmpty(d.p_name))
        commission == ToFloatSafe(d.bank_tax)
        dto == OperationDTO(date_val,
                            IF qty > 0 THEN <<"buy">> ELSE <<"sale">>,
                            ToFloatSafe(d.summ_trade), ticker.v,
                            ExtractIsinFromAttr(d.isin_reg), 10 * Abs(qty),
                            OrEmpty(d.place_name), OrEmpty(d.trade_no),
                            commission)
    IN  IF qty = 0 THEN [kind |-> "no_qty", dto |-> dto, commission |-> 0]
        ELSE IF date_val.none
        THEN [kind |-> "no_date", dto |-> dto, commission |-> 0]
        ELSE IF ticker.exc THEN [kind |-> "exc", dto |-> dto, commission |-> 0]
        ELSE [kind |-> "emit", dto |-> dto, commission |-> commission]

(***************************************************************************)
(* xml_transfers.py: helpers                                               *)
(***************************************************************************)
\* parse_datetime_from_settlement(settlement_date, settlement_time).
\* With a usable time the date part alone is combined with it (naive);
\* with an unusable time the fallback parses the date part alone (naive);
\* without a time datetime.fromisoformat keeps a UTC offset.
ParseDatetimeFromSettlement(settlement_date, settlement_time) ==
    IF settlement_date.k # "iso" THEN NoDate
    ELSE IF Truthy(settlement_time) THEN Naive(settlement_date.day)
    ELSE [none |-> FALSE, day |-> settlement_date.day,
          aware |-> settlement_date.aware]

\* TransferRowOutcome without the comment_new test of lines 117-121.
TransferRowOutcomeAnyComment(d) ==
    LET oper_type == Strip(OrEmpty(d.oper_type))
        comment_new == Strip(OrEmpty(d.comment_new))
        qty == ToFloatSafe(d.qty)
        date_val == ParseDatetimeFromSettlement(d.settlement_date,
                                                d.settlement_time)
        dto == OperationDTO(date_val,
                            IF qty > 0 THEN <<"asset_receive">>
                            ELSE <<"asset_withdrawal">>,
                            0, <<>>, ExtractIsinFromAttr(d.p_name), Abs(qty),
                            comment_new, <<>>, 0)
    IN  IF Lower(oper_type) # <<"perevod">>
        THEN [kind |-> "not_conversion", dto |-> dto]
        ELSE IF qty = 0 THEN [kind |-> "no_qty", dto |-> dto]
        ELSE IF date_val.none THEN [kind |-> "no_date", dto |-> dto]
        ELSE [kind |-> "emit", dto |-> dto]

\* One iteration of the iterparse loop of parse_transfers_from_xml.
TransferRowOutcome(d) ==
    LET oper_type == Strip(OrEmpty(d.oper_type))
        comment_new == Strip(OrEmpty(d.comment_new))
        qty == ToFloatSafe(d.qty)
        date_val == ParseDatetimeFromSettlement(d.settlement_date,
                                                d.settlement_time)
        dto == OperationDTO(date_val,
                            IF qty > 0 THEN <<"asset_receive">>
                            ELSE <<"asset_withdrawal">>,
                            0, <<>>, ExtractIsinFromAttr(d.p_name), Abs(qty),
                            comment_new, <<>>, 0)
    IN  IF Lower(oper_type) # <<"perevod">>
        THEN [kind |-> "not_conversion", dto |-> dto]
        ELSE IF ~Contains(<<"konvertatsiya">>, Lower(comment_new))
        THEN [kind |-> "not_conversion", dto |-> dto]
        ELSE IF qty = 0 THEN [kind |-> "no_qty", dto |-> dto]
        ELSE IF date_val.none THEN [kind |-> "no_date", dto |-> dto]
        ELSE [kind |-> "emit", dto |-> dto]

(***************************************************************************)
(* full_statement_xml.py: deduplication                                    *)
(***************************************************************************)
\* _op_key.  The f-string "id:<oid>" / "auto:<date>|<type>|<sum>|<ticker>|
\* <isin>" is kept as the record of its parts: date.isoformat() is the
\* date with its offset, str(None or "") the empty date.
\* OpKey without the .strip() of line 19.
OpKeyRaw(op) ==
    IF op.operation_id # <<>>
    THEN [tag |-> "id", oid |-> op.operation_id, date |-> NoDate,
          type |-> <<>>, sum |-> 0, ticker |-> <<>>, isin |-> <<>>]
    ELSE [tag |-> "auto", oid |-> <<>>, date |-> op.date,
          type |-> op.operation_type, sum |-> op.payment_sum,
          ticker |-> op.ticker, isin |-> op.isin]

\* _op_key(op)
OpKey(op) ==
    IF Strip(op.operation_id) # <<>>
    THEN [tag |-> "id", oid |-> Strip(op.operation_id), date |-> NoDate,
          type |-> <<>>, sum |-> 0, ticker |-> <<>>, isin |-> <<>>]
    ELSE [tag |-> "auto", oid |-> <<>>, date |-> op.date,
          type |-> op.operation_type, sum |-> op.payment_sum,
          ticker |-> op.ticker, isin |-> op.isin]

RECURSIVE DedupeFrom(_, _, _)
DedupeFrom(ops, seen, deduped) ==
    IF ops = <<>> THEN deduped
    ELSE IF OpKey(Head(ops)) \in seen
    THEN DedupeFrom(Tail(ops), seen, deduped)
    ELSE DedupeFrom(Tail(ops), seen \cup {OpKey(Head(ops))},
                    Append(deduped, Head(ops)))

\* _dedupe_ops(ops)[0]
DedupeOps(ops) == DedupeFrom(ops, {}, <<>>)

(***************************************************************************)
(* full_statement_xml.py: to_dict, sort key, list.sort                     *)
(***************************************************************************)
\* OperationDTO.to_dict(): the fields, the date as its ISO-8601 string
\* (an attribute-like value [k, day, aware]) or None (k = "absent").
ToDict(op) ==
    [op EXCEPT !.date =
        IF op.date.none THEN [k |-> "absent", day |-> 0, aware |-> FALSE]
        ELSE [k |-> "iso", day |-> op.date.day, aware |-> op.date.aware]]

\* datetime.min
DatetimeMin == Naive(0)

\* _sort_key_for_operation: (dt, op_type)
SortKeyForOperation(op_dict) ==
    [dt |-> IF op_dict.date.k = "iso"
            THEN [none |-> FALSE, day |-> op_dict.date.day,
                  aware |-> op_dict.date.aware]
            ELSE DatetimeMin,
     ty |-> op_dict.operation_type]

\* The operation types that reach the sort, in the order of Python's str
\* comparison (code points).
TYPE_ORDER ==
    << <<"amortization">>, <<"asset_receive">>, <<"asset_withdrawal">>,
       <<"buy">>, <<"commission">>, <<"commission_refund">>, <<"coupon">>,
       <<"deposit">>, <<"dividend">>, <<"other_expense">>, <<"other_income">>,
       <<"refund">>, <<"repayment">>, <<"sale">>, <<"transfer">>,
       <<"unknown">>, <<"withdrawal">>, <<"withholding">> >>

TypeRank(t) == CHOOSE i \in DOMAIN TYPE_ORDER : TYPE_ORDER[i] = t

\* a < b on two sort keys, as tuple comparison does it: the first
\* component that differs under == decides; == of a naive and an aware
\* datetime is False and < of the two raises TypeError.
KeyLt(a, b) ==
    IF a.dt = b.dt
    THEN (IF TypeRank(a.ty) < TypeRank(b.ty) THEN "lt" ELSE "ge")
    ELSE IF a.dt.aware # b.dt.aware THEN "err"
    ELSE IF a.dt.day < b.dt.day THEN "lt" ELSE "ge"

ItemLt(x, y) == KeyLt(SortKeyForOperation(x), SortKeyForOperation(y))

\* list.sort on fewer than 64 items: count_run finds the leading run
\* (reversed when strictly descending), binarysort inserts the rest.  A
\* comparison that raises ends the sort with the list as it then stands.
RECURSIVE RunEnd(_, _, _)
RunEnd(seq, i, desc) ==
    IF i = Len(seq) THEN [n |-> i, err |-> FALSE]
    ELSE IF ItemLt(seq[i + 1], seq[i]) = "err" THEN [n |-> i, err |-> TRUE]
    ELSE IF (ItemLt(seq[i + 1], seq[i]) = "lt") = desc
    THEN RunEnd(seq, i + 1, desc)
    ELSE [n |-> i, err |-> FALSE]

Reverse(seq) == [i \in DOMAIN seq |-> seq[Len(seq) + 1 - i]]

RECURSIVE BinPos(_, _, _, _)
BinPos(seq, pivot, l, r) ==
    IF l >= r THEN l
    ELSE LET p == l + ((r - l) \div 2)
         IN  IF ItemLt(pivot, seq[p + 1]) = "err" THEN -1
             ELSE IF ItemLt(pivot, seq[p + 1]) = "lt"
             THEN BinPos(seq, pivot, l, p)
             ELSE BinPos(seq, pivot, p + 1, r)

RECURSIVE BinarySort(_, _)
BinarySort(seq, start) ==
    IF start > Len(seq) THEN [ok |-> TRUE, list |-> seq]
    ELSE LET pos == BinPos(seq, seq[start], 0, start - 1)
         IN  IF pos = -1 THEN [ok |-> FALSE, list |-> seq]
             ELSE BinarySort(SubSeq(seq, 1, pos) \o <<seq[start]>>
                             \o SubSeq(seq, pos + 1, start - 1)
                             \o SubSeq(seq, start + 1, Len(seq)),
                             start + 1)

\* combined_ops.sort(key=_sort_key_for_operation) inside try/except:
\* [ok, list]; ok = FALSE when the sort raised.
SortOps(seq) ==
    IF Len(seq) < 2 THEN [ok |-> TRUE, list |-> seq]
    ELSE IF ItemLt(seq[2], seq[1]) = "err" THEN [ok |-> FALSE, list |-> seq]
    ELSE LET desc == ItemLt(seq[2], seq[1]) = "lt"
             run == RunEnd(seq, 2, desc)
             head == IF desc THEN Reverse(SubSeq(seq, 1, run.n))
                     ELSE SubSeq(seq, 1, run.n)
         IN  IF run.err THEN [ok |-> FALSE, list |-> seq]
             ELSE BinarySort(head \o SubSeq(seq, run.n + 1, Len(seq)),
                             run.n + 1)

\* stats.get(key, default)
Get(stats, key, default) == IF key \in DOMAIN stats THEN stats[key] ELSE default

\* FullResult with the trade records merged ahead of the financial ones.
FullResultTradesFirst(fin, fstats, trd, tstats, xfer, xstats) ==
    LET deduped_fin == DedupeOps(fin)
        deduped_trades == DedupeOps(trd)
        deduped_transfers == DedupeOps(xfer)
        combined_ops_dto == deduped_trades \o deduped_fin \o deduped_transfers
        combined_ops == [i \in DOMAIN combined_ops_dto |->
                            ToDict(combined_ops_dto[i])]
        sorted == SortOps(combined_ops).list
    IN  [operations |-> sorted,
         meta |-> [fin_ops_raw_count |-> Get(fstats, "total_rows", Len(fin)),
                   trade_ops_raw_count |-> Get(tstats, "total_rows", Len(trd)),
                   transfer_ops_raw_count |->
                       Get(xstats, "total_rows", Len(xfer)),
                   total_ops_count |-> Len(sorted),
                   fin_ops_stats |-> fstats,
                   trade_ops_stats |-> tstats,
                   transfer_ops_stats |-> xstats,
                   after_dedupe_from_fin |-> Len(deduped_fin),
                   after_dedupe_from_trade |-> Len(deduped_trades),
                   after_dedupe_from_transfer |-> Len(deduped_transfers)]]

\* Lines 106-152 of parse_full_statement_xml: the merged result.
FullResult(fin, fstats, trd, tstats, xfer, xstats) ==
    LET deduped_fin == DedupeOps(fin)
        deduped_trades == DedupeOps(trd)
        deduped_transfers == DedupeOps(xfer)
        combined_ops_dto == deduped_fin \o deduped_trades \o deduped_transfers
        combined_ops == [i \in DOMAIN combined_ops_dto |->
                            ToDict(combined_ops_dto[i])]
        sorted == SortOps(combined_ops).list
    IN  [operations |-> sorted,
         meta |-> [fin_ops_raw_count |-> Get(fstats, "total_rows", Len(fin)),
                   trade_ops_raw_count |-> Get(tstats, "total_rows", Len(trd)),
                   transfer_ops_raw_count |->
                       Get(xstats, "total_rows", Len(xfer)),
                   total_ops_count |-> Len(sorted),
                   fin_ops_stats |-> fstats,
                   trade_ops_stats |-> tstats,
                   transfer_ops_stats |-> xstats,
                   after_dedupe_from_fin |-> Len(deduped_fin),
                   after_dedupe_from_trade |-> Len(deduped_trades),
                   after_dedupe_from_transfer |-> Len(deduped_transfers)]]

\* return {"operations": [], "meta": {"error": ...}}
ErrorResult(stats) == [operations |-> <<>>, meta |-> [error |-> stats.error]]

(***************************************************************************)
(* The extractors' loops, one row at a time                                *)
(***************************************************************************)
\* stats of parse_trades_from_xml before the scan (lines 90-97).
TradeStats0 ==
    [total_rows |-> 0, parsed |-> 0, skipped_no_date |-> 0,
     skipped_no_qty |-> 0, skipped_invalid |-> 0, total_commission |-> 0]

\* TradeStep without `stats["skipped_no_qty"] += 1` (line 128): a row with
\* no quantity is dropped and counted nowhere.
TradeStepZeroQtyUncounted(ops, stats, d) ==
    LET o == TradeRowOutcome(d)
        seen == [stats EXCEPT !.total_rows = @ + 1]
    IN  CASE o.kind = "no_qty" ->
               [ops |-> ops, exc |-> FALSE, stats |-> seen]
          [] o.kind = "no_date" ->
               [ops |-> ops, exc |-> FALSE,
                stats |-> [seen EXCEPT !.skipped_no_date = @ + 1]]
          [] o.kind = "exc" ->
               [ops |-> ops, exc |-> TRUE, stats |-> seen]
          [] OTHER ->
               [ops |-> Append(ops, o.dto), exc |-> FALSE,
                stats |-> [seen EXCEPT !.parsed = @ + 1,
                                       !.total_commission = @ + o.commission]]

\* Body of the iterparse loop of parse_trades_from_xml on one Details
\* element: the new (ops, stats) and whether an exception left the body.
TradeStep(ops, stats, d) ==
    LET o == TradeRowOutcome(d)
        seen == [stats EXCEPT !.total_rows = @ + 1]
    IN  CASE o.kind = "no_qty" ->
               [ops |-> ops, exc |-> FALSE,
                stats |-> [seen EXCEPT !.skipped_no_qty = @ + 1]]
          [] o.kind = "no_date" ->
               [ops |-> ops, exc |-> FALSE,
                stats |-> [seen EXCEPT !.skipped_no_date = @ + 1]]
          [] o.kind = "exc" ->
               [ops |-> ops, exc |-> TRUE, stats |-> seen]
          [] OTHER ->
               [ops |-> Append(ops, o.dto), exc |-> FALSE,
                stats |-> [seen EXCEPT !.parsed = @ + 1,
                                       !.total_commission = @ + o.commission]]

\* except Exception of the scan (lines 193-195): the value returned.
\* ret = FALSE would let the exception leave the function.
TradesExcept(ops, e) == [ret |-> TRUE, ops |-> ops, stats |-> [error |-> e]]

\* stats of parse_transfers_from_xml before the scan (lines 74-81).
TransferStats0 ==
    [total_rows |-> 0, parsed |-> 0, skipped_not_conversion |-> 0,
     skipped_no_date |-> 0, skipped_no_qty |-> 0, skipped_invalid |-> 0]

\* Body of the iterparse loop of parse_transfers_from_xml.
TransferStep(ops, stats, d) ==
    LET o == TransferRowOutcome(d)
        seen == [stats EXCEPT !.total_rows = @ + 1]
    IN  CASE o.kind = "not_conversion" ->
               [ops |-> ops,
                stats |-> [seen EXCEPT !.skipped_not_conversion = @ + 1]]
          [] o.kind = "no_qty" ->
               [ops |-> ops, stats |-> [seen EXCEPT !.skipped_no_qty = @ + 1]]
          [] o.kind = "no_date" ->
               [ops |-> ops, stats |-> [seen EXCEPT !.skipped_no_date = @ + 1]]
          [] OTHER ->
               [ops |-> Append(ops, o.dto),
                stats |-> [seen EXCEPT !.parsed = @ + 1]]

\* except Exception of the transfer scan (lines 177-179).
TransfersExcept(ops, e) == [ret |-> TRUE, ops |-> ops, stats |-> [error |-> e]]

\* Accumulators of _parse_root before the loop (lines 230-239).
\* Money amounts are counted in units of 0.00001, a tenth of the last
\* decimal place that _dec_to_str keeps.
FinStats0 ==
    [total_rows |-> 0, skipped |-> 0, total_income |-> 0, total_expense |-> 0,
     totals_by_mapped_type |-> [t \in {} |-> 0]]

\* totals_by_mapped_type[k] = totals_by_mapped_type.get(k, Decimal("0")) + a
\* (lines 387-391).
AddTo(m, k, a) ==
    [t \in DOMAIN m \cup {k} |->
        (IF t \in DOMAIN m THEN m[t] ELSE 0) + (IF t = k THEN a ELSE 0)]

\* _dec_to_str (lines 241-247): d.quantize(Decimal("0.0001")), which rounds
\* to the fourth decimal place, ties to the even digit.
DecToStr(d) == 10 * RoundHalfEven(d)

\* FinStep with the accumulation of lines 386-402 moved in front of the two
\* `continue` statements: skipped and dropped rows are added to the totals.
FinStepTotalsOfAllRows(ops, stats, rn) ==
    LET o == FinRowOutcome(rn)
        amount == AmountOf(rn.volume)
        seen == [stats EXCEPT
                   !.total_rows = @ + 1,
                   !.totals_by_mapped_type =
                       IF o.kind = "exc" THEN @
                       ELSE AddTo(@, o.dto.operation_type, amount),
                   !.total_income = IF amount > 0 THEN @ + amount ELSE @,
                   !.total_expense = IF amount < 0 THEN @ + amount ELSE @]
    IN  CASE o.kind \in {"skip", "drop"} ->
               [ops |-> ops, exc |-> FALSE,
                stats |-> [seen EXCEPT !.skipped = @ + 1]]
          [] o.kind = "exc" ->
               [ops |-> ops, exc |-> TRUE, stats |-> seen]
          [] OTHER ->
               [ops |-> Append(ops, o.dto), exc |-> FALSE, stats |-> seen]

\* Body of `for rn in rn_nodes` of _parse_root.
FinStep(ops, stats, rn) ==
    LET o == FinRowOutcome(rn)
        seen == [stats EXCEPT !.total_rows = @ + 1]
        amount == AmountOf(rn.volume)
    IN  CASE o.kind \in {"skip", "drop"} ->
               [ops |-> ops, exc |-> FALSE,
                stats |-> [seen EXCEPT !.skipped = @ + 1]]
          [] o.kind = "exc" ->
               [ops |-> ops, exc |-> TRUE, stats |-> seen]
          [] OTHER ->
               [ops |-> Append(ops, o.dto), exc |-> FALSE,
                stats |-> [seen EXCEPT
                             !.totals_by_mapped_type =
                                 AddTo(@, o.dto.operation_type, amount),
                             !.total_income =
                                 IF amount > 0 THEN @ + amount ELSE @,
                             !.total_expense =
                                 IF amount < 0 THEN @ + amount ELSE @]]

\* FinExcept without the except clause: the exception leaves _parse_root.
FinExceptReraises(ops, stats, e) ==
    [ret |-> FALSE, ops |-> ops, stats |-> stats]

\* except Exception of _parse_root (lines 404-411).
FinExcept(ops, stats, e) ==
    [ret |-> TRUE, ops |-> <<>>,
     stats |-> [total_rows |-> stats.total_rows, parsed |-> Len(ops),
                skipped |-> stats.skipped, error |-> e]]

\* The stats dict of a completed _parse_root (lines 417-427).
FinStatsOut(ops, stats) ==
    [total_rows |-> stats.total_rows, parsed |-> Len(ops),
     skipped |-> stats.skipped,
     amounts_by_mapped_type |->
         [t \in DOMAIN stats.totals_by_mapped_type |->
             DecToStr(stats.totals_by_mapped_type[t])],
     total_income |-> DecToStr(stats.total_income),
     total_expense |-> DecToStr(stats.total_expense)]

\* except Exception of parse_fin_operations_from_xml (lines 458-460).
FinReadExcept ==
    [ret |-> TRUE, ops |-> <<>>,
     stats |-> [total_rows |-> 0, parsed |-> 0, skipped |-> 0,
                error |-> "XML read error"]]

(***************************************************************************)
(* The input and what the readers make of it                               *)
(***************************************************************************)
\* ET.iterparse(source) can open its source: the temporary file written
\* from the bytes, or an existing path.  An XML string and a path that
\* names no file cannot be opened.
CanOpen(inp) == inp.kind \in {"bytes", "path"}

\* ET.fromstring / ET.parse of parse_fin_operations_from_xml gives a tree.
CanRead(inp) == inp.kind \in {"bytes", "path", "xmlstr"} /\ ~inp.malformed

\* What is still unset while parse_full_statement_xml runs.
Pending == [pending |-> TRUE]

\* No second call shares the working directory.
NoCalls == [calls |-> FALSE]

(***************************************************************************)
(* parse_trades_from_xml                                                   *)
(***************************************************************************)
\* Lines 100-113: a bytes source is written to the temporary file.  The
\* write can fail (ok = FALSE); the file may then be left behind (left).
TradesPrepare ==
    /\ pc = "trades_prepare"
    /\ \E ok \in BOOLEAN, left \in BOOLEAN :
         IF input.kind # "bytes"
         THEN /\ ok /\ left
              /\ pc' = "trades_scan"
              /\ UNCHANGED <<trades, trade_stats, tmp_trades>>
         ELSE IF ok
         THEN /\ left
              /\ tmp_trades' = TRUE
              /\ pc' = "trades_scan"
              /\ UNCHANGED <<trades, trade_stats>>
         ELSE /\ tmp_trades' = left
              /\ trades' = <<>>
              /\ trade_stats' = [error |-> "OSError"]
              /\ pc' = "trades_ret"
    /\ UNCHANGED <<conc, input, t_i, fin_ops, fin_stats, f_i, transfers,
                   transfer_stats, x_i, tmp_transfers, result, raised>>

\* The function returns or raises; finally unlinks the temporary file.
TradesLeave(h) ==
    /\ tmp_trades' = FALSE
    /\ IF h.ret
       THEN /\ trades' = h.ops
            /\ trade_stats' = h.stats
            /\ pc' = "trades_ret"
            /\ UNCHANGED raised
       ELSE /\ raised' = TRUE
            /\ pc' = "raised"
            /\ UNCHANGED <<trades, trade_stats>>

\* Lines 117-190: the next Details element of the stream.
TradesRow ==
    /\ pc = "trades_scan"
    /\ CanOpen(input)
    /\ t_i < Len(input.details)
    /\ LET st == TradeStep(trades, trade_stats, input.details[t_i + 1])
       IN  IF st.exc
           THEN /\ TradesLeave(TradesExcept(st.ops, "IndexError"))
                /\ t_i' = t_i + 1
           ELSE /\ trades' = st.ops
                /\ trade_stats' = st.stats
                /\ t_i' = t_i + 1
                /\ UNCHANGED <<pc, tmp_trades, raised>>
    /\ UNCHANGED <<conc, input, fin_ops, fin_stats, f_i, transfers, transfer_stats,
                   x_i, tmp_transfers, result>>

\* The stream ends: it cannot be opened, or the parser meets the malformed
\* part (lines 193-195), or the document is complete (lines 203-204).
TradesEnd ==
    /\ pc = "trades_scan"
    /\ ~CanOpen(input) \/ t_i = Len(input.details)
    /\ IF ~CanOpen(input)
       THEN TradesLeave(TradesExcept(trades, "OSError"))
       ELSE IF input.malformed
       THEN TradesLeave(TradesExcept(trades, "ParseError"))
       ELSE TradesLeave([ret |-> TRUE, ops |-> trades, stats |-> trade_stats])
    /\ UNCHANGED <<conc, input, t_i, fin_ops, fin_stats, f_i, transfers,
                   transfer_stats, x_i, tmp_transfers, result>>

(***************************************************************************)
(* parse_fin_operations_from_xml                                           *)
(***************************************************************************)
FinLeave(h) ==
    IF h.ret
    THEN /\ fin_ops' = h.ops
         /\ fin_stats' = h.stats
         /\ pc' = "fin_ret"
         /\ UNCHANGED raised
    ELSE /\ raised' = TRUE
         /\ pc' = "raised"
         /\ UNCHANGED <<fin_ops, fin_stats>>

\* Lines 440-462: the whole document is read into a tree.
FinRead ==
    /\ pc = "fin_read"
    /\ IF CanRead(input)
       THEN /\ pc' = "fin_scan"
            /\ UNCHANGED <<fin_ops, fin_stats, raised>>
       ELSE FinLeave(FinReadExcept)
    /\ UNCHANGED <<conc, input, trades, trade_stats, t_i, tmp_trades, f_i,
                   transfers, transfer_stats, x_i, tmp_transfers, result>>

\* Lines 276-402: the next rn node.
FinRow ==
    /\ pc = "fin_scan"
    /\ f_i < Len(input.rns)
    /\ LET st == FinStep(fin_ops, fin_stats, input.rns[f_i + 1])
       IN  IF st.exc
           THEN FinLeave(FinExcept(st.ops, st.stats, "AttributeError"))
           ELSE /\ fin_ops' = st.ops
                /\ fin_stats' = st.stats
                /\ UNCHANGED <<pc, raised>>
    /\ f_i' = f_i + 1
    /\ UNCHANGED <<conc, input, trades, trade_stats, t_i, tmp_trades, transfers,
                   transfer_stats, x_i, tmp_transfers, result>>

\* Lines 413-428: no rn node is left.
FinEnd ==
    /\ pc = "fin_scan"
    /\ f_i = Len(input.rns)
    /\ FinLeave([ret |-> TRUE, ops |-> fin_ops,
                 stats |-> FinStatsOut(fin_ops, fin_stats)])
    /\ UNCHANGED <<conc, input, trades, trade_stats, t_i, tmp_trades, f_i,
                   transfers, transfer_stats, x_i, tmp_transfers, result>>

(***************************************************************************)
(* parse_transfers_from_xml                                                *)
(***************************************************************************)
\* Lines 84-96.
TransfersPrepare ==
    /\ pc = "transfers_prepare"
    /\ \E ok \in BOOLEAN, left \in BOOLEAN :
         IF input.kind # "bytes"
         THEN /\ ok /\ left
              /\ pc' = "transfers_scan"
              /\ UNCHANGED <<transfers, transfer_stats, tmp_transfers>>
         ELSE IF ok
         THEN /\ left
              /\ tmp_transfers' = TRUE
              /\ pc' = "transfers_scan"
              /\ UNCHANGED <<transfers, transfer_stats>>
         ELSE /\ tmp_transfers' = left
              /\ transfers' = <<>>
              /\ transfer_stats' = [error |-> "OSError"]
              /\ pc' = "transfers_ret"
    /\ UNCHANGED <<conc, input, trades, trade_stats, t_i, tmp_trades, fin_ops,
                   fin_stats, f_i, x_i, result, raised>>

TransfersLeave(h) ==
    /\ tmp_transfers' = FALSE
    /\ IF h.ret
       THEN /\ transfers' = h.ops
            /\ transfer_stats' = h.stats
            /\ pc' = "transfers_ret"
            /\ UNCHANGED raised
       ELSE /\ raised' = TRUE
            /\ pc' = "raised"
            /\ UNCHANGED <<transfers, transfer_stats>>

\* Lines 100-175.
TransfersRow ==
    /\ pc = "transfers_scan"
    /\ CanOpen(input)
    /\ x_i < Len(input.details)
    /\ LET st == TransferStep(transfers, transfer_stats, input.details[x_i + 1])
       IN  /\ transfers' = st.ops
           /\ transfer_stats' = st.stats
    /\ x_i' = x_i + 1
    /\ UNCHANGED <<conc, input, pc, trades, trade_stats, t_i, tmp_trades, fin_ops,
                   fin_stats, f_i, tmp_transfers, result, raised>>

\* Lines 177-194.
TransfersEnd ==
    /\ pc = "transfers_scan"
    /\ ~CanOpen(input) \/ x_i = Len(input.details)
    /\ IF ~CanOpen(input)
       THEN TransfersLeave(TransfersExcept(transfers, "OSError"))
       ELSE IF input.malformed
       THEN TransfersLeave(TransfersExcept(transfers, "ParseError"))
       ELSE TransfersLeave([ret |-> TRUE, ops |-> transfers,
                            stats |-> transfer_stats])
    /\ UNCHANGED <<conc, input, trades, trade_stats, t_i, tmp_trades, fin_ops,
                   fin_stats, f_i, x_i, result>>

(***************************************************************************)
(* parse_full_statement_xml                                                *)
(***************************************************************************)
\* Lines 87-90.
CheckTrades ==
    /\ pc = "trades_ret"
    /\ IF HasError(trade_stats)
       THEN /\ result' = ErrorResult(trade_stats)
            /\ pc' = "done"
       ELSE /\ pc' = "fin_read"
            /\ UNCHANGED result
    /\ UNCHANGED <<conc, input, trades, trade_stats, t_i, tmp_trades, fin_ops,
                   fin_stats, f_i, transfers, transfer_stats, x_i,
                   tmp_transfers, raised>>

\* Lines 93-96.
CheckFin ==
    /\ pc = "fin_ret"
    /\ IF HasError(fin_stats)
       THEN /\ result' = ErrorResult(fin_stats)
            /\ pc' = "done"
       ELSE /\ pc' = "transfers_prepare"
            /\ UNCHANGED result
    /\ UNCHANGED <<conc, input, trades, trade_stats, t_i, tmp_trades, fin_ops,
                   fin_stats, f_i, transfers, transfer_stats, x_i,
                   tmp_transfers, raised>>

\* Aggregate with a transfer error handled like a trade or financial one.
AggregateTransferFatal ==
    /\ pc = "transfers_ret"
    /\ result' = IF HasError(transfer_stats)
                 THEN ErrorResult(transfer_stats)
                 ELSE FullResult(fin_ops, fin_stats, trades, trade_stats,
                                 transfers, transfer_stats)
    /\ pc' = "done"
    /\ UNCHANGED <<conc, input, trades, trade_stats, t_i, tmp_trades, fin_ops,
                   fin_stats, f_i, transfers, transfer_stats, x_i,
                   tmp_transfers, raised>>

\* Lines 100-152: a failed transfer extractor counts as no transfers;
\* dedupe, merge, to_dict, sort, meta.
Aggregate ==
    /\ pc = "transfers_ret"
    /\ transfers' = IF HasError(transfer_stats) THEN <<>> ELSE transfers
    /\ transfer_stats' = IF HasError(transfer_stats)
                         THEN [parsed |-> 0, total_rows |-> 0]
                         ELSE transfer_stats
    /\ result' = FullResult(fin_ops, fin_stats, trades, trade_stats,
                            transfers', transfer_stats')
    /\ pc' = "done"
    /\ UNCHANGED <<conc, input, trades, trade_stats, t_i, tmp_trades, fin_ops,
                   fin_stats, f_i, x_i, tmp_transfers, raised>>

(***************************************************************************)
(* Inputs: attribute values and rows                                       *)
(***************************************************************************)
Num(v) == [k |-> "num", v |-> v]

AbsentNum == [k |-> "absent", v |-> 0]

GarbageNum == [k |-> "garbage", v |-> 0]

\* "dd.mm.yyyy HH:MM:SS"
Dmy(d) == [k |-> "dmy", day |-> d, aware |-> FALSE]

\* "yyyy-mm-ddTHH:MM:SS"
Iso(d) == [k |-> "iso", day |-> d, aware |-> FALSE]

\* "yyyy-mm-ddTHH:MM:SS+03:00"
IsoTz(d) == [k |-> "iso", day |-> d, aware |-> TRUE]

AbsentDate == [k |-> "absent", day |-> 0, aware |-> FALSE]

GarbageDate == [k |-> "garbage", day |-> 0, aware |-> FALSE]

\* "HH:MM:SS"
TimeOnly == [k |-> "time", day |-> 0, aware |-> FALSE]

\* A <Details> element of the Trades report.
TradeDetails(qty, db_time, p_name, trade_no) ==
    [qty |-> qty, db_time |-> db_time, settlement_time |-> AbsentDate,
     p_name |-> p_name, trade_no |-> trade_no, bank_tax |-> Num(10),
     summ_trade |-> Num(1000), isin_reg |-> Str(<<"RU0009029540">>),
     place_name |-> Str(<<"MOEX">>), oper_type |-> NoneStr,
     comment_new |-> NoneStr, settlement_date |-> AbsentDate]

\* A <Details> element of the 4_Transfers report.
TransferDetails(oper_type, comment_new, qty, settlement_date, settlement_time) ==
    [qty |-> qty, db_time |-> AbsentDate, settlement_time |-> settlement_time,
     p_name |-> Str(<<"RU0009029540">>), trade_no |-> NoneStr,
     bank_tax |-> AbsentNum, summ_trade |-> AbsentNum, isin_reg |-> NoneStr,
     place_name |-> NoneStr, oper_type |-> oper_type,
     comment_new |-> comment_new, settlement_date |-> settlement_date]

\* An <rn> node with an <oper_type> element.
Rn(oper_type, comment, volume, settlement_date) ==
    [oper_elem |-> TRUE, oper_type |-> oper_type, comment |-> comment,
     volume |-> volume, settlement_date |-> settlement_date,
     last_update |-> AbsentDate]

\* An <rn> node without an <oper_type> element.
RnBare(comment, volume, settlement_date) ==
    [oper_elem |-> FALSE, oper_type |-> NoneStr, comment |-> comment,
     volume |-> volume, settlement_date |-> settlement_date,
     last_update |-> AbsentDate]

SeqsUpTo(S, n) == UNION { [1..k -> S] : k \in 0..n }

SBER == Str(<<"SBER", WS, "ao">>)

Perevod == Str(<<"Perevod">>)

Konvertatsiya == Str(<<"Konvertatsiya", WS, "tsennyh", WS, "bumag">>)

Dividendy == Str(<<"Dividend", "y">>)

Note == Str(<<"note">>)

(***************************************************************************)
(* Specification: the whole of parse_full_statement_xml                    *)
(***************************************************************************)
MaxDetails == 2

MaxRn == 2

PipeDetails ==
    { TradeDetails(Num(50), Dmy(2), SBER, Str(<<"7">>)),
      TradeDetails(Num(50), Dmy(1), Str(<<WS>>), Str(<<"8">>)),
      TradeDetails(Num(0), Dmy(1), SBER, Str(<<"9">>)),
      TransferDetails(Perevod, Konvertatsiya, Num(50), Iso(2), TimeOnly) }

PipeRns ==
    { Rn(Dividendy, Note, Num(1000), Iso(1)),
      Rn(NoneStr, Str(<<"dividend">>), Num(1000), Iso(1)),
      Rn(Str(<<"Pokupka/Prodazha">>), Note, Num(1000), Iso(1)) }

Kinds == {"bytes", "path", "xmlstr", "nopath"}

Inputs ==
    [kind : Kinds, malformed : BOOLEAN,
     details : SeqsUpTo(PipeDetails, MaxDetails),
     rns : SeqsUpTo(PipeRns, MaxRn)]

\* The state in which an extractor or the aggregator starts on `inp`.
Start(inp, at) ==
    /\ input = inp
    /\ pc = at
    /\ trades = <<>>
    /\ trade_stats = TradeStats0
    /\ t_i = 0
    /\ tmp_trades = FALSE
    /\ fin_ops = <<>>
    /\ fin_stats = FinStats0
    /\ f_i = 0
    /\ transfers = <<>>
    /\ transfer_stats = TransferStats0
    /\ x_i = 0
    /\ tmp_transfers = FALSE
    /\ result = Pending
    /\ raised = FALSE
    /\ conc = NoCalls

Init == \E inp \in Inputs : Start(inp, "trades_prepare")

Next ==
    \/ TradesPrepare
    \/ TradesRow
    \/ TradesEnd
    \/ CheckTrades
    \/ FinRead
    \/ FinRow
    \/ FinEnd
    \/ CheckFin
    \/ TransfersPrepare
    \/ TransfersRow
    \/ TransfersEnd
    \/ Aggregate

Spec == Init /\ [][Next]_vars

(***************************************************************************)
(* Properties of parse_full_statement_xml (specification Spec)             *)
(***************************************************************************)
Count(seq, x) == Cardinality({ i \in DOMAIN seq : seq[i] = x })

\* The two sequences hold the same elements the same number of times.
SameBag(a, b) ==
    /\ Len(a) = Len(b)
    /\ \A i \in DOMAIN a : Count(a, a[i]) = Count(b, a[i])

Returned == pc = "done"

\* The result is the dictionary {"operations": ..., "meta": ...}.
HasShape == DOMAIN result = {"operations", "meta"}

\* The result of lines 90 and 96.
IsErrorResult == result.operations = <<>> /\ HasError(result.meta)

\* The transfer extractor was called and returned an error: its stats
\* carry the error, or are the substitute of line 104.
TransferFailed ==
    /\ Returned
    /\ ~HasError(trade_stats)
    /\ ~HasError(fin_stats)
    /\ \/ HasError(transfer_stats)
       \/ DOMAIN transfer_stats = {"parsed", "total_rows"}

\* C1 as stated: parse_full_statement_xml never raises and returns
\* {operations, meta}; when an extractor (any of the three) hard-fails the
\* result has empty operations and meta.error.
C1_AnyExtractorFailureIsErrorResult ==
    /\ ~raised
    /\ Returned =>
         /\ HasShape
         /\ (HasError(trade_stats) \/ HasError(fin_stats) \/ TransferFailed)
               => IsErrorResult

\* C1 amended: parse_full_statement_xml never raises and returns
\* {operations, meta}; when the trade or the financial extractor hard-fails the result has empty operations and
\* meta.error.
C1_NeverRaises ==
    /\ ~raised
    /\ pc # "raised"
    /\ Returned =>
         /\ HasShape
         /\ (HasError(trade_stats) \/ HasError(fin_stats)) => IsErrorResult

\* C1 witness: the financial extractor hard-failed on a row after the
\* trade extractor had emitted records, and the error result came back.
C1_Witness ==
    /\ Returned
    /\ ~HasError(trade_stats)
    /\ trades # <<>>
    /\ HasError(fin_stats)
    /\ IsErrorResult

\* C2: an error of the trade or financial extractor gives the error
\* result; an error of the transfer extractor gives a result with every
\* deduplicated financial and trade record, no transfer record and no
\* meta.error.
C2_TransferFailureNotFatal ==
    Returned =>
      /\ (HasError(trade_stats) \/ HasError(fin_stats)) => IsErrorResult
      /\ TransferFailed =>
           /\ "error" \notin DOMAIN result.meta
           /\ SameBag(result.operations,
                      [i \in DOMAIN (DedupeOps(fin_ops) \o DedupeOps(trades))
                         |-> ToDict((DedupeOps(fin_ops) \o DedupeOps(trades))[i])])
           /\ \A i \in DOMAIN result.operations :
                result.operations[i].operation_type
                    \notin {<<"asset_receive">>, <<"asset_withdrawal">>}
           /\ result.meta.after_dedupe_from_transfer = 0

\* C2 witness: the transfer extractor failed on a document that holds a
\* conversion row, and financial and trade records came back.
C2_Witness ==
    /\ TransferFailed
    /\ \E i \in DOMAIN input.details :
         TransferRowOutcome(input.details[i]).kind = "emit"
    /\ fin_ops # <<>>
    /\ trades # <<>>
    /\ Len(result.operations) = Len(fin_ops) + Len(trades)
    /\ "error" \notin DOMAIN result.meta

\* The temporary file of the trade extractor could not be written.
TradesWriteFailed == trade_stats = [error |-> "OSError"] /\ input.kind = "bytes"

\* A Details row with a quantity and a date.
ValidTradeRow(d) == ToIntSafe(d.qty) # 0 /\ ~TradeDateVal(d).none

\* C3: in a well-formed document no Details row aborts the trade scan:
\* the stats carry no error, every row is counted as parsed or under a
\* skip reason, and every valid row is emitted.
C3_NoRowAbortsTrades ==
    (pc = "trades_ret" /\ CanOpen(input) /\ ~input.malformed
        /\ ~TradesWriteFailed)
    => /\ "error" \notin DOMAIN trade_stats
       /\ trade_stats.total_rows = Len(input.details)
       /\ trade_stats.total_rows =
             trade_stats.parsed + trade_stats.skipped_no_qty
             + trade_stats.skipped_no_date + trade_stats.skipped_invalid
       /\ Len(trades) =
             Cardinality({ i \in DOMAIN input.details :
                             ValidTradeRow(input.details[i]) })

\* C4: a trade scan that ends in an error returns an empty record list
\* with the error stats.
C4_TradeErrorReturnsEmptyList ==
    (pc = "trades_ret" /\ HasError(trade_stats)) => trades = <<>>

\* C5: classification never fails: on a readable document the financial
\* extractor returns without an error in its stats.
C5_ClassificationNeverErrors ==
    (pc = "fin_ret" /\ CanRead(input)) => "error" \notin DOMAIN fin_stats

(***************************************************************************)
(* Specification: parse_fin_operations_from_xml on its own                 *)
(***************************************************************************)
MaxFinRows == 2

FinLabels ==
    { Str(<<"NDFL">>),
      Str(<<"ndfl">>),
      Str(<<"Komissiya", WS, "NDFL">>),
      Str(<<"Komissiya", WS, "brokera">>),
      Str(<<"Protsenty", WS, "po", WS, "zaimam">>),
      Str(<<"Komissiya", WS, "Protsenty", WS, "po", WS, "zaimam">>),
      Str(<<"Pokupka/Prodazha">>),
      Str(<<"NDFL", WS, "pokupka/prodazha">>),
      Dividendy,
      NoneStr }

FinVolumes == { AbsentNum, Num(-50), Num(100) }

FinRns ==
    { Rn(l, Note, v, Iso(1)) : l \in FinLabels, v \in FinVolumes }
    \cup { Rn(Str(<<"NDFL", WS, "pokupka/prodazha">>), Str(<<"dividend">>),
              Num(100), Iso(1)),
           Rn(Str(<<"Komissiya", WS, "brokera">>), Str(<<"dividend">>),
              Num(0), Iso(1)) }

FinInputs ==
    [kind : {"xmlstr"}, malformed : BOOLEAN, details : {<<>>},
     rns : SeqsUpTo(FinRns, MaxFinRows)]

InitFin == \E inp \in FinInputs : Start(inp, "fin_read")

NextFin ==
    \/ FinRead
    \/ FinRow
    \/ FinEnd

SpecFin == InitFin /\ [][NextFin]_vars

(***************************************************************************)
(* Properties of the financial extractor (specification SpecFin)           *)
(***************************************************************************)
\* The loop of _parse_root is about to take the next rn node.
AtFinRow == pc = "fin_scan" /\ f_i < Len(input.rns)

NextRn == input.rns[f_i + 1]

\* The raw operation-type label of the row.
RawLabel(rn) == OrEmpty(OperTypeVal(rn))

\* The raw label contains `key`, letter case aside.
HasKey(rn, key) == Contains(Lower(key), Lower(RawLabel(rn)))

\* The label of the row contains an entry of the ignore list, letter case
\* aside.
LabelHasIgnored(rn) ==
    \E sp \in SKIP_OPERATIONS : Contains(Lower(sp), Lower(LabelSource(rn)))

\* The step appends one record, of type t.
EmitsType(t) ==
    /\ Len(fin_ops') = Len(fin_ops) + 1
    /\ SubSeq(fin_ops', 1, Len(fin_ops)) = fin_ops
    /\ Last(fin_ops').operation_type = t

IfPositive(a, yes, no) == IF a > 0 THEN yes ELSE no

\* C9 as stated: a row whose raw label contains NDFL is typed refund when
\* its amount is > 0 and withholding otherwise; a label containing
\* Komissiya gives commission_refund / commission by the same test; a label
\* containing "Protsenty po zaimam" gives other_income when the amount is
\* not 0 and other_expense otherwise.
C9_SignDependentTypes ==
    [][AtFinRow =>
         LET a == AmountOf(NextRn.volume)
         IN  /\ HasKey(NextRn, <<"NDFL">>)
                  => EmitsType(IfPositive(a, <<"refund">>, <<"withholding">>))
             /\ HasKey(NextRn, <<"Komissiya">>)
                  => EmitsType(IfPositive(a, <<"commission_refund">>,
                                          <<"commission">>))
             /\ HasKey(NextRn, <<"Protsenty", WS, "po", WS, "zaimam">>)
                  => EmitsType(IF a # 0 THEN <<"other_income">>
                               ELSE <<"other_expense">>)]_vars

\* C9 amended: the same three rules for a row that the ignore list does
\* not skip, the first of NDFL, Komissiya, "Protsenty po zaimam" found in
\* the raw label deciding: the Komissiya rule holds of a label without
\* NDFL, the "Protsenty po zaimam" rule of a label without NDFL and
\* Komissiya.
C9_FirstHandlerDecides ==
    [][(AtFinRow /\ ~LabelHasIgnored(NextRn)) =>
         LET a == AmountOf(NextRn.volume)
         IN  /\ HasKey(NextRn, <<"NDFL">>)
                  => EmitsType(IfPositive(a, <<"refund">>, <<"withholding">>))
             /\ (HasKey(NextRn, <<"Komissiya">>)
                   /\ ~HasKey(NextRn, <<"NDFL">>))
                  => EmitsType(IfPositive(a, <<"commission_refund">>,
                                          <<"commission">>))
             /\ (HasKey(NextRn, <<"Protsenty", WS, "po", WS, "zaimam">>)
                   /\ ~HasKey(NextRn, <<"NDFL">>)
                   /\ ~HasKey(NextRn, <<"Komissiya">>))
                  => EmitsType(IF a # 0 THEN <<"other_income">>
                               ELSE <<"other_expense">>)]_vars

\* C9 witness: after an emitted row, a row labelled with both Komissiya
\* and NDFL and without a resolved amount was emitted as withholding.
C9_Witness ==
    /\ pc = "fin_scan"
    /\ f_i = 2
    /\ HasKey(input.rns[2], <<"NDFL">>)
    /\ HasKey(input.rns[2], <<"Komissiya">>)
    /\ input.rns[2].volume.k = "absent"
    /\ Len(fin_ops) = 2
    /\ fin_ops[2].operation_type = <<"withholding">>

\* C10: a row whose label contains an entry of the ignore list, letter
\* case aside, is not emitted, whatever its amount and comment and
\* whatever the classifier would make of it, and adds exactly one to
\* skipped.
C10_IgnoreListWins ==
    [][(AtFinRow /\ LabelHasIgnored(NextRn)) =>
         /\ fin_ops' = fin_ops
         /\ pc' = "fin_scan"
         /\ fin_stats' = [fin_stats EXCEPT !.total_rows = @ + 1,
                                           !.skipped = @ + 1]]_vars

\* C10 witness: after a skipped row, a row labelled "NDFL pokupka/prodazha"
\* with a positive amount and a dividend comment was skipped.
C10_Witness ==
    /\ pc = "fin_scan"
    /\ f_i = 2
    /\ LabelHasIgnored(input.rns[1])
    /\ HasKey(input.rns[2], <<"NDFL">>)
    /\ LabelHasIgnored(input.rns[2])
    /\ AmountOf(input.rns[2].volume) > 0
    /\ input.rns[2].comment = Str(<<"dividend">>)
    /\ fin_ops = <<>>
    /\ fin_stats.skipped = 2

(***************************************************************************)
(* Specification: parse_full_statement_xml on a readable, well-formed      *)
(* file, with rows that differ in dates, identifiers and types             *)
(***************************************************************************)
MaxAggDetails == 2

MaxAggRn == 2

AggDetails ==
    { TradeDetails(Num(50), Dmy(1), SBER, Str(<<"7">>)),
      TradeDetails(Num(-50), Dmy(2), SBER, Str(<<"7", WS>>)),
      TradeDetails(Num(50), Dmy(3), SBER, Str(<<WS>>)),
      TradeDetails(Num(50), Dmy(1), SBER, Str(<<WS>>)),
      TransferDetails(Perevod, Konvertatsiya, Num(50), Iso(2), TimeOnly) }

AggRns ==
    { Rn(Dividendy, Note, Num(1000), Iso(2)),
      Rn(Str(<<"NDFL">>), Note, Num(-50), AbsentDate),
      Rn(Dividendy, Note, Num(1000), IsoTz(3)),
      Rn(Str(<<"buy">>), Note, Num(1000), Iso(1)),
      Rn(Str(<<"asset_receive">>), Note, Num(1000), Iso(2)) }

AggInputs ==
    [kind : {"path"}, malformed : {FALSE},
     details : SeqsUpTo(AggDetails, MaxAggDetails),
     rns : SeqsUpTo(AggRns, MaxAggRn)]

InitAgg == \E inp \in AggInputs : Start(inp, "trades_prepare")

SpecAgg == InitAgg /\ [][Next]_vars

(***************************************************************************)
(* Properties of the aggregator (specification SpecAgg)                    *)
(***************************************************************************)
\* The composite of (ISO date, operation type, payment sum, ticker, isin).
CompositeKey(op) ==
    [tag |-> "auto", oid |-> <<>>, date |-> op.date,
     type |-> op.operation_type, sum |-> op.payment_sum,
     ticker |-> op.ticker, isin |-> op.isin]

IdKey(oid) ==
    [tag |-> "id", oid |-> oid, date |-> NoDate, type |-> <<>>, sum |-> 0,
     ticker |-> <<>>, isin |-> <<>>]

\* The key as stated: the operation_id when it is non-empty.
StatedKey(op) ==
    IF op.operation_id # <<>> THEN IdKey(op.operation_id) ELSE CompositeKey(op)

\* The key on the operation_id without its surrounding whitespace.
TrimmedKey(op) ==
    IF Strip(op.operation_id) # <<>> THEN IdKey(Strip(op.operation_id))
    ELSE CompositeKey(op)

\* The records of ops at the positions where keys shows a key for the
\* first time, in the order of ops.
RECURSIVE FirstOfEachKey(_, _, _)
FirstOfEachKey(ops, keys, i) ==
    IF i > Len(ops) THEN <<>>
    ELSE (IF \E j \in 1..(i - 1) : keys[j] = keys[i] THEN <<>> ELSE <<ops[i]>>)
         \o FirstOfEachKey(ops, keys, i + 1)

KeepFirstStated(ops) ==
    FirstOfEachKey(ops, [i \in DOMAIN ops |-> StatedKey(ops[i])], 1)

KeepFirstTrimmed(ops) ==
    FirstOfEachKey(ops, [i \in DOMAIN ops |-> TrimmedKey(ops[i])], 1)

\* A full (not an error) result was returned.
Merged == Returned /\ ~HasError(result.meta)

\* The records of the three extractors as the sort receives them.
MergedDicts ==
    LET all == DedupeOps(fin_ops) \o DedupeOps(trades) \o DedupeOps(transfers)
    IN  [i \in DOMAIN all |-> ToDict(all[i])]

ResolvedDay(d) == IF d.date.k = "iso" THEN d.date.day ELSE 0

\* C7: in every full result, for adjacent records a before b,
\* date(a) < date(b), or the dates are equal and type(a) <= type(b); a
\* record without a date has the minimum date.
C7_OutputSorted ==
    Merged =>
      \A i \in 1..(Len(result.operations) - 1) :
        LET a == result.operations[i]
            b == result.operations[i + 1]
        IN  \/ ResolvedDay(a) < ResolvedDay(b)
            \/ /\ ResolvedDay(a) = ResolvedDay(b)
               /\ TypeRank(a.operation_type) <= TypeRank(b.operation_type)

\* C8: the output records with one (resolved date, operation type) are
\* the merged records with it, in merge order: financial, then trade,
\* then transfer, each in its deduplicated extraction order.
C8_StableMergeOrder ==
    Merged =>
      \A i \in DOMAIN result.operations :
        LET SameKey(d) == SortKeyForOperation(d)
                            = SortKeyForOperation(result.operations[i])
        IN  SelectSeq(result.operations, SameKey)
              = SelectSeq(MergedDicts, SameKey)

\* C8 witness: the sort moved a record, and a financial and a trade record
\* with one date and type stand in merge order.
C8_Witness ==
    /\ Merged
    /\ result.operations # MergedDicts
    /\ \E i \in 1..(Len(result.operations) - 1) :
         /\ SortKeyForOperation(result.operations[i])
              = SortKeyForOperation(result.operations[i + 1])
         /\ result.operations[i].operation_id = <<>>
         /\ result.operations[i].comment = Note.s
         /\ result.operations[i + 1].operation_id = <<"7">>


(***************************************************************************)
(* Specification: parse_trades_from_xml alone                              *)
(***************************************************************************)
MaxTradeRows == 2

\* A Trades row with the given bank_tax attribute.
TradeDetailsTax(qty, db_time, p_name, trade_no, bank_tax) ==
    [TradeDetails(qty, db_time, p_name, trade_no) EXCEPT !.bank_tax = bank_tax]

\* A Trades row with the given db_time and settlement_time attributes.
TradeDetailsDated(db_time, settlement_time) ==
    [TradeDetails(Num(50), db_time, SBER, Str(<<"1">>))
         EXCEPT !.settlement_time = settlement_time]

\* db_time and settlement_time: parsable, unparsable or missing.
DatedTradeRows ==
    { TradeDetailsDated(GarbageDate, Dmy(3)),
      TradeDetailsDated(AbsentDate, Dmy(3)),
      TradeDetailsDated(Dmy(1), Dmy(3)),
      TradeDetailsDated(GarbageDate, GarbageDate),
      TradeDetailsDated(AbsentDate, AbsentDate) }

\* qty "5", "-5", "0.4", "2.5", "-1.5", "n/a"; trade_no "7", "7 8", "7 9";
\* bank_tax "1", "-1"; a date that does not parse; a name of one space.
TradeRows ==
    { TradeDetailsTax(Num(50), Dmy(1), SBER, Str(<<"7">>), Num(10)),
      TradeDetailsTax(Num(-50), Dmy(2), SBER, Str(<<"7", WS, "8">>), Num(-10)),
      TradeDetailsTax(Num(50), Dmy(1), SBER, Str(<<"7", WS, "9">>), Num(10)),
      TradeDetailsTax(Num(4), Dmy(1), SBER, Str(<<"5">>), Num(10)),
      TradeDetailsTax(Num(25), GarbageDate, SBER, Str(<<"6">>), Num(10)),
      TradeDetailsTax(Num(-15), Iso(2), SBER, Str(<<"4">>), Num(10)),
      TradeDetailsTax(GarbageNum, Dmy(1), SBER, Str(<<"3">>), Num(-10)),
      TradeDetailsTax(Num(50), Dmy(1), Str(<<WS>>), Str(<<"2">>), Num(10)) }
    \cup DatedTradeRows

TradeInputs ==
    [kind : {"bytes", "path"}, malformed : BOOLEAN,
     details : SeqsUpTo(TradeRows, MaxTradeRows), rns : {<<>>}]

InitTrades == \E inp \in TradeInputs : Start(inp, "trades_prepare")

NextTrades ==
    \/ TradesPrepare
    \/ TradesRow
    \/ TradesEnd

SpecTrades == InitTrades /\ [][NextTrades]_vars

\* The detail row the trade scan is about to process.
NextDetail == input.details[t_i + 1]

\* trades' is trades with one record appended.
TradeAppended == Len(trades') = Len(trades) + 1 /\ SubSeq(trades', 1, Len(trades)) = trades

\* C11: for a trade detail row with a resolvable date, a rounded quantity of
\* 0 skips the row and counts it in skipped_no_qty; a positive one emits a
\* `buy` record and a negative one a `sale` record, whose quantity is the
\* absolute value of the rounded quantity, hence positive.  (A row whose
\* name makes the ticker lookup raise emits nothing.)
C11_TradeDirectionByQuantitySign ==
    [][TradesRow =>
         LET d == NextDetail
             q == ToIntSafe(d.qty)
         IN  ~TradeDateVal(d).none =>
               /\ q = 0 =>
                     /\ trades' = trades
                     /\ "skipped_no_qty" \in DOMAIN trade_stats'
                     /\ trade_stats'.skipped_no_qty
                          = trade_stats.skipped_no_qty + 1
                     /\ trade_stats'.parsed = trade_stats.parsed
               /\ q # 0 =>
                     IF ExtractTickerFromName(OrEmpty(d.p_name)).exc
                     THEN trades' = trades
                     ELSE /\ TradeAppended
                          /\ Last(trades').operation_type
                               = (IF q > 0 THEN <<"buy">> ELSE <<"sale">>)
                          /\ Last(trades').quantity = 10 * Abs(q)
                          /\ Last(trades').quantity > 0]_vars

\* A scan that skipped a row of quantity 0.4 and emitted, for quantity
\* -1.5, a sale of 2.
C11_Witness ==
    /\ pc = "trades_ret"
    /\ "skipped_no_qty" \in DOMAIN trade_stats
    /\ trade_stats.skipped_no_qty = 1
    /\ Len(input.details) = 2
    /\ ToFloatSafe(input.details[1].qty) = -15
    /\ ToFloatSafe(input.details[2].qty) = 4
    /\ Len(trades) = 1
    /\ trades[1].operation_type = <<"sale">>
    /\ trades[1].quantity = 20

(***************************************************************************)
(* Specification: parse_transfers_from_xml alone                           *)
(***************************************************************************)
MaxTransferRows == 2

\* oper_type "Перевод", "ПЕРЕВОД", " Перевод ", "Переводы", "Покупка", none;
\* comment_new with and without the word, in either case, or none;
\* qty "5", "-5", "0", "n/a"; a settlement_date that does not parse.
TransferRows ==
    { TransferDetails(Perevod, Konvertatsiya, Num(50), Iso(2), TimeOnly),
      TransferDetails(Str(<<"PEREVOD">>),
                      Str(<<"obmen", WS, "KONVERTATSIYA">>), Num(-50), Iso(1),
                      AbsentDate),
      TransferDetails(Str(<<WS, "Perevod", WS>>), Konvertatsiya, Num(50),
                      Iso(1), TimeOnly),
      TransferDetails(Str(<<"Perevod", "y">>), Konvertatsiya, Num(50), Iso(1),
                      TimeOnly),
      TransferDetails(Str(<<"Pokupka">>), Konvertatsiya, Num(50), Iso(1),
                      TimeOnly),
      TransferDetails(NoneStr, Konvertatsiya, Num(-50), Iso(1), TimeOnly),
      TransferDetails(Perevod, Note, Num(50), Iso(1), TimeOnly),
      TransferDetails(Perevod, NoneStr, Num(0), Iso(1), TimeOnly),
      TransferDetails(Perevod, Konvertatsiya, Num(0), Iso(1), TimeOnly),
      TransferDetails(Perevod, Konvertatsiya, GarbageNum, Iso(1), TimeOnly),
      TransferDetails(Perevod, Konvertatsiya, Num(50), GarbageDate, TimeOnly) }

TransferInputs ==
    [kind : {"bytes", "path"}, malformed : BOOLEAN,
     details : SeqsUpTo(TransferRows, MaxTransferRows), rns : {<<>>}]

InitTransfers == \E inp \in TransferInputs : Start(inp, "transfers_prepare")

NextTransfers ==
    \/ TransfersPrepare
    \/ TransfersRow
    \/ TransfersEnd

SpecTransfers == InitTransfers /\ [][NextTransfers]_vars

\* The detail row the transfer scan is about to process.
NextTransferDetail == input.details[x_i + 1]

\* comment_new contains "конвертация" case-insensitively.
MentionsConversion(d) ==
    Contains(<<"konvertatsiya">>, Lower(OrEmpty(d.comment_new)))

\* oper_type equals "Перевод" case-insensitively.
IsTransferLabel(d) == Lower(OrEmpty(d.oper_type)) = <<"perevod">>

\* The same, after surrounding whitespace is trimmed.
IsTrimmedTransferLabel(d) == Lower(Strip(OrEmpty(d.oper_type))) = <<"perevod">>

\* This step of the transfer scan emits nothing and counts the row in
\* skipped_not_conversion.
CountedNotConversion ==
    /\ transfers' = transfers
    /\ transfer_stats'.skipped_not_conversion
         = transfer_stats.skipped_not_conversion + 1

\* This step of the transfer scan appends one record of type t for d.
TransferEmitted(d, t) ==
    /\ Len(transfers') = Len(transfers) + 1
    /\ SubSeq(transfers', 1, Len(transfers)) = transfers
    /\ Last(transfers').operation_type = t
    /\ Last(transfers').quantity = Abs(ToFloatSafe(d.qty))
    /\ Last(transfers').payment_sum = 0

\* What the scan does with a row that passes the filter `passes`.
TransferRule(d, passes) ==
    /\ ~passes => CountedNotConversion
    /\ passes /\ ~ParseDatetimeFromSettlement(d.settlement_date,
                                               d.settlement_time).none =>
         /\ ToFloatSafe(d.qty) > 0 => TransferEmitted(d, <<"asset_receive">>)
         /\ ToFloatSafe(d.qty) < 0 => TransferEmitted(d, <<"asset_withdrawal">>)
         /\ ToFloatSafe(d.qty) = 0 => transfers' = transfers

\* C12 as stated: a record is emitted only for a row whose oper_type equals
\* "Перевод" case-insensitively and whose comment_new contains "конвертация";
\* any other row is counted in skipped_not_conversion and not emitted; a
\* passing row with a date gives asset_receive / asset_withdrawal by the sign
\* of qty, with quantity |qty| and payment_sum 0, and qty 0 is skipped.
C12_ExactLabelFilter ==
    [][TransfersRow =>
         TransferRule(NextTransferDetail,
                      IsTransferLabel(NextTransferDetail)
                      /\ MentionsConversion(NextTransferDetail))]_vars

\* C12 amended: the same with oper_type compared after surrounding
\* whitespace is trimmed.
C12_TrimmedLabelFilter ==
    [][TransfersRow =>
         TransferRule(NextTransferDetail,
                      IsTrimmedTransferLabel(NextTransferDetail)
                      /\ MentionsConversion(NextTransferDetail))]_vars

\* A row with oper_type " Перевод " was emitted as asset_receive after a
\* row without the word in its comment was counted as not a conversion.
C12_Witness ==
    /\ x_i = 2
    /\ ~IsTransferLabel(input.details[2])
    /\ IsTrimmedTransferLabel(input.details[2])
    /\ IsTransferLabel(input.details[1])
    /\ ~MentionsConversion(input.details[1])
    /\ "skipped_not_conversion" \in DOMAIN transfer_stats
    /\ transfer_stats.skipped_not_conversion = 1
    /\ Len(transfers) = 1
    /\ transfers[1].operation_type = <<"asset_receive">>
    /\ transfers[1].quantity = 50

(***************************************************************************)
(* Temporary files of the streaming extractors (specification Spec)        *)
(***************************************************************************)
\* C13: with a byte-buffer source, the temporary file of a streaming
\* extractor no longer exists once that extractor has returned, whichever
\* way it returned (complete scan, skipped rows, parse error, failed write
\* of the buffer).
C13_TempFileGoneOnReturn ==
    input.kind = "bytes" =>
        /\ pc \notin {"trades_prepare", "trades_scan"} => ~tmp_trades
        /\ pc \in {"transfers_ret", "done", "raised"} => ~tmp_transfers

(***************************************************************************)
(* Specification: two parse_trades_from_xml calls on byte buffers in one   *)
(* working directory.  Both use Path("__xml_trades_tmp__.xml").            *)
(***************************************************************************)
MaxConcRows == 1

Calls == {"a", "b"}

\* __xml_trades_tmp__.xml: absent, or holding the Details rows of a buffer.
NoFile == [exists |-> FALSE, rows |-> <<>>]

FileOf(buf) == [exists |-> TRUE, rows |-> buf]

\* A call on buffer buf before line 100: its position, the rows its reader
\* received from the file, and its ops and stats.
Call0(buf) ==
    [buf |-> buf, at |-> "write", src |-> <<>>, i |-> 0, ops |-> <<>>,
     stats |-> TradeStats0]

ConcRows ==
    { TradeDetails(Num(50), Dmy(1), SBER, Str(<<"7">>)),
      TradeDetails(Num(-50), Dmy(2), SBER, Str(<<"8">>)),
      TradeDetails(Num(0), Dmy(1), SBER, Str(<<"9">>)) }

ConcBuffers == SeqsUpTo(ConcRows, MaxConcRows)

\* The variables of the single call, which this specification leaves alone.
callVars ==
    <<input, pc, trades, trade_stats, t_i, tmp_trades, fin_ops, fin_stats,
      f_i, transfers, transfer_stats, x_i, tmp_transfers, result, raised>>

InitConc ==
    /\ input = [kind |-> "bytes", malformed |-> FALSE, details |-> <<>>,
                rns |-> <<>>]
    /\ pc = "idle"
    /\ trades = <<>>
    /\ trade_stats = TradeStats0
    /\ t_i = 0
    /\ tmp_trades = FALSE
    /\ fin_ops = <<>>
    /\ fin_stats = FinStats0
    /\ f_i = 0
    /\ transfers = <<>>
    /\ transfer_stats = TransferStats0
    /\ x_i = 0
    /\ tmp_transfers = FALSE
    /\ result = Pending
    /\ raised = FALSE
    /\ \E bufs \in [Calls -> ConcBuffers] :
         /\ bufs["a"] # bufs["b"]
         /\ conc = [file |-> NoFile, call |-> [c \in Calls |-> Call0(bufs[c])]]

\* Lines 104-105: tmp.write_bytes(path_or_bytes) replaces the file's content.
ConcWrite(c) ==
    /\ conc.call[c].at = "write"
    /\ conc' = [conc EXCEPT !.file = FileOf(conc.call[c].buf),
                            !.call[c].at = "open"]
    /\ UNCHANGED callVars

\* Line 117: ET.iterparse(source) opens the file and the reader receives
\* what it holds then (one chunk); without the file the open raises and the
\* except of lines 193-195 takes over.
ConcOpen(c) ==
    /\ conc.call[c].at = "open"
    /\ IF conc.file.exists
       THEN conc' = [conc EXCEPT !.call[c].src = conc.file.rows,
                                 !.call[c].at = "scan"]
       ELSE LET h == TradesExcept(conc.call[c].ops, "OSError")
            IN  conc' = [conc EXCEPT !.call[c].ops = h.ops,
                                     !.call[c].stats = h.stats,
                                     !.call[c].at = "unlink"]
    /\ UNCHANGED callVars

\* Lines 117-190 on the next Details element the reader received.
ConcRow(c) ==
    /\ conc.call[c].at = "scan"
    /\ conc.call[c].i < Len(conc.call[c].src)
    /\ LET me == conc.call[c]
           st == TradeStep(me.ops, me.stats, me.src[me.i + 1])
           h == TradesExcept(st.ops, "IndexError")
       IN  IF st.exc
           THEN conc' = [conc EXCEPT !.call[c].ops = h.ops,
                                     !.call[c].stats = h.stats,
                                     !.call[c].i = @ + 1,
                                     !.call[c].at = "unlink"]
           ELSE conc' = [conc EXCEPT !.call[c].ops = st.ops,
                                     !.call[c].stats = st.stats,
                                     !.call[c].i = @ + 1]
    /\ UNCHANGED callVars

\* The reader has no more elements: the loop ends.
ConcEnd(c) ==
    /\ conc.call[c].at = "scan"
    /\ conc.call[c].i = Len(conc.call[c].src)
    /\ conc' = [conc EXCEPT !.call[c].at = "unlink"]
    /\ UNCHANGED callVars

\* Lines 196-201: finally, tmp.unlink(missing_ok=True); the call returns.
ConcUnlink(c) ==
    /\ conc.call[c].at = "unlink"
    /\ conc' = [conc EXCEPT !.file = NoFile, !.call[c].at = "done"]
    /\ UNCHANGED callVars

NextConc ==
    \/ \E c \in Calls : ConcWrite(c)
    \/ \E c \in Calls : ConcOpen(c)
    \/ \E c \in Calls : ConcRow(c)
    \/ \E c \in Calls : ConcEnd(c)
    \/ \E c \in Calls : ConcUnlink(c)

SpecConc == InitConc /\ [][NextConc]_vars

\* What parse_trades_from_xml returns for the rows of a buffer when no
\* other call touches the file.
RECURSIVE TradeScanAlone(_, _, _)
TradeScanAlone(ops, stats, rows) ==
    IF rows = <<>> THEN [ops |-> ops, stats |-> stats]
    ELSE LET st == TradeStep(ops, stats, Head(rows))
             h == TradesExcept(st.ops, "IndexError")
         IN  IF st.exc THEN [ops |-> h.ops, stats |-> h.stats]
             ELSE TradeScanAlone(st.ops, st.stats, Tail(rows))

\* C14: two calls on different byte buffers whose steps (write the
\* temporary file, stream-read it, delete it) interleave do not affect each
\* other: a finished call has the records and stats of its own buffer, and
\* did not fail or lose rows.
C14_CallsDoNotInterfere ==
    \A c \in Calls :
        conc.call[c].at = "done" =>
            /\ ~HasError(conc.call[c].stats)
            /\ conc.call[c].ops
                 = TradeScanAlone(<<>>, TradeStats0, conc.call[c].buf).ops
            /\ conc.call[c].stats
                 = TradeScanAlone(<<>>, TradeStats0, conc.call[c].buf).stats

(***************************************************************************)
(* Specification: the financial extractor on labels and comments that      *)
(* several classification rules match                                      *)
(***************************************************************************)
MaxLabelRows == 2

\* Rows with an oper_type element.
LabelledRns ==
    { Rn(Str(<<"Dividend", "y", WS, "NDFL">>), Note, Num(100), Iso(1)),
      Rn(Dividendy, Note, Num(100), Iso(1)),
      Rn(Str(<<"dividend", "y">>), Note, Num(100), Iso(1)),
      Rn(Str(<<"Chastichnoe", WS, "pogashenie", WS, "obligatsii">>), Note,
         Num(100), Iso(1)),
      Rn(Str(<<"Chastichnoe", WS, "pogashenie", WS, "obligatsii", WS, "2">>),
         Note, Num(100), Iso(1)),
      Rn(Str(<<"Perevod", WS, "Kupony">>), Str(<<"dividend">>), Num(100),
         Iso(1)),
      Rn(Str(<<"Vznos">>), Str(<<"dividend">>), Num(100), Iso(1)),
      Rn(Perevod, Str(<<"pogashenie", WS, "kupona">>), Num(100), Iso(1)),
      Rn(Perevod, Str(<<"Dividend", "y", WS, "perevod", WS, "denezhnyh", WS,
                         "sredstv">>), Num(100), Iso(1)),
      Rn(Perevod, Str(<<"perevod", WS, "denezhnyh", WS, "sredstv">>),
         Num(100), Iso(1)),
      Rn(Perevod, Str(<<"vozvrat", WS, "sredstv", WS, "po", WS, "dog", WS,
                         "polnoe", WS, "pogashenie", WS, "nominala">>),
         Num(-50), Iso(1)),
      Rn(Perevod, Note, Num(100), Iso(1)),
      Rn(Str(<<"Perevod", "y", WS, "mezhdu", WS, "ploshchadkami">>), Note,
         Num(100), Iso(1)),
      Rn(Str(<<"Perevod", "y", WS, "mezhdu", WS, "ploshchadkami">>),
         Str(<<"dividend">>), Num(100), Iso(1)),
      Rn(NoneStr, NoneStr, Num(0), Iso(1)),
      Rn(NoneStr, Str(<<"Pokupka/Prodazha">>), Num(0), Iso(1)) }

\* Rows without an oper_type element: the label is empty.
BareRns ==
    { RnBare(Str(<<"dividend">>), Num(0), Iso(1)),
      RnBare(Str(<<"dividend">>), AbsentNum, Iso(1)),
      RnBare(Str(<<"dividend">>), Num(100), Iso(1)),
      RnBare(Note, Num(0), Iso(1)),
      RnBare(NoneStr, Num(0), Iso(1)),
      RnBare(NoneStr, AbsentNum, Iso(1)),
      RnBare(NoneStr, Num(100), Iso(1)),
      RnBare(Str(<<"pokupka/prodazha">>), Num(100), Iso(1)),
      RnBare(Str(<<"Zaimy", WS, "overnight">>), Num(0), Iso(1)) }

LabelInputs ==
    [kind : {"xmlstr"}, malformed : BOOLEAN, details : {<<>>},
     rns : SeqsUpTo(LabelledRns \cup BareRns, MaxLabelRows)]

InitLabels == \E inp \in LabelInputs : Start(inp, "fin_read")

NextLabels ==
    \/ FinRead
    \/ FinRow
    \/ FinEnd

SpecLabels == InitLabels /\ [][NextLabels]_vars

(***************************************************************************)
(* Properties of the classifier (specification SpecLabels)                 *)
(***************************************************************************)
\* The step emits nothing and counts the row in skipped.
CountedSkipped ==
    /\ fin_ops' = fin_ops
    /\ fin_stats'.skipped = fin_stats.skipped + 1

\* The dynamic handlers whose key the label contains, and what the first of
\* them gives for the amount.
DynamicHits(rn) ==
    { i \in DOMAIN DYNAMIC_TYPE_HANDLERS :
        HasKey(rn, DYNAMIC_TYPE_HANDLERS[i].pattern) }

DynamicType(rn) ==
    IF DynamicHits(rn) = {} THEN <<>>
    ELSE ApplyHandler(DYNAMIC_TYPE_HANDLERS[Min(DynamicHits(rn))],
                      AmountOf(rn.volume))

\* The static-table entries equal to the label, and those whose key the
\* label contains.
ExactHits(rn) ==
    { i \in DOMAIN OPERATION_TYPE_MAP : OPERATION_TYPE_MAP[i].key = RawLabel(rn) }

StaticHits(rn) ==
    { i \in DOMAIN OPERATION_TYPE_MAP : HasKey(rn, OPERATION_TYPE_MAP[i].key) }

TableType(hits) ==
    IF hits = {} THEN <<>> ELSE OPERATION_TYPE_MAP[Min(hits)].type

\* The comment-pattern groups with a pattern in the lower-cased comment, and
\* the type of the first of them in group order.
GroupHits(rn) ==
    { g \in DOMAIN TRANSFER_COMMENT_PATTERNS :
        \E p \in DOMAIN TRANSFER_COMMENT_PATTERNS[g].patterns :
            Contains(TRANSFER_COMMENT_PATTERNS[g].patterns[p],
                     Lower(OrEmpty(rn.comment))) }

GroupType(rn, none) ==
    IF GroupHits(rn) = {} THEN none
    ELSE TRANSFER_COMMENT_PATTERNS[Min(GroupHits(rn))].type

\* The rules in their order: whether each applies to the row, and its outcome.
\* The comment groups apply to a label containing "перевод" (with `transfer`
\* when no group matches) and to an empty label that a group matches.
RulesFor(rn) ==
    << [applies |-> DynamicHits(rn) # {}, type |-> DynamicType(rn)],
       [applies |-> ExactHits(rn) # {}, type |-> TableType(ExactHits(rn))],
       [applies |-> StaticHits(rn) # {}, type |-> TableType(StaticHits(rn))],
       [applies |-> \/ HasKey(rn, <<"perevod">>)
                    \/ Strip(RawLabel(rn)) = <<>> /\ GroupHits(rn) # {},
        type |-> GroupType(rn, <<"transfer">>)],
       [applies |-> TRUE,
        type |-> IF Strip(RawLabel(rn)) = <<>> THEN <<"unknown">>
                 ELSE Strip(RawLabel(rn))] >>

FirstApplicable(rn) ==
    RulesFor(rn)[Min({ i \in DOMAIN RulesFor(rn) : RulesFor(rn)[i].applies })].type

\* The step gives the row type t: a record of that type is emitted, or the
\* row is dropped when t is the drop sentinel.
RowTyped(t) == IF t = <<"_skip_">> THEN CountedSkipped ELSE EmitsType(t)

\* C15: the classifier returns the outcome of the first applicable rule in
\* the order dynamic handler, exact static match, static substring match
\* (first entry in table order), comment-pattern groups, fallback; checked on
\* every row that reaches the classifier with a label that is a string.
C15_FirstApplicableRule ==
    [][(AtFinRow /\ ~ShouldSkip(NextRn) /\ ~OperTypeVal(NextRn).none) =>
         RowTyped(FirstApplicable(NextRn))]_vars

\* After a label with a dynamic and a static key ("Дивиденды НДФЛ", typed
\* refund), a non-exact label containing both "Погашение облигации" and
\* "Частичное погашение облигации" was typed repayment.
C15_Witness ==
    /\ pc = "fin_scan"
    /\ f_i = 2
    /\ HasKey(input.rns[1], <<"NDFL">>)
    /\ HasKey(input.rns[1], <<"Dividend", "y">>)
    /\ ExactHits(input.rns[2]) = {}
    /\ StaticHits(input.rns[2]) = {3, 5}
    /\ Len(fin_ops) = 2
    /\ fin_ops[1].operation_type = <<"refund">>
    /\ fin_ops[2].operation_type = <<"repayment">>

\* The label contains "перевод" and no dynamic-handler or static-table key.
TransferLabelOnly(rn) ==
    /\ HasKey(rn, <<"perevod">>)
    /\ DynamicHits(rn) = {}
    /\ StaticHits(rn) = {}

\* The label contains an entry of the ignore list, letter case aside.
RawLabelIgnored(rn) ==
    \E sp \in SKIP_OPERATIONS : Contains(Lower(sp), Lower(RawLabel(rn)))

\* C16 as stated: a row whose label contains "перевод" and matches no
\* dynamic handler or static-table entry has the type of the first comment
\* group (in group order) with a pattern in the lower-cased comment, and
\* `transfer` if none; a row resolving to the drop sentinel is not emitted
\* and adds one to skipped.
C16_TransferTypedByComment ==
    [][(AtFinRow /\ TransferLabelOnly(NextRn)) =>
         RowTyped(GroupType(NextRn, <<"transfer">>))]_vars

\* C16 amended: the same for a row that the ignore list does not skip.
C16_TransferTypedByCommentUnlessIgnored ==
    [][(AtFinRow /\ TransferLabelOnly(NextRn) /\ ~RawLabelIgnored(NextRn)) =>
         RowTyped(GroupType(NextRn, <<"transfer">>))]_vars

\* After a transfer row whose comment has only the drop-sentinel wording was
\* dropped, one whose comment has both dividend and drop-sentinel wording was
\* emitted as dividend.
C16_Witness ==
    /\ pc = "fin_scan"
    /\ f_i = 2
    /\ TransferLabelOnly(input.rns[1])
    /\ GroupHits(input.rns[1]) = {8}
    /\ TransferLabelOnly(input.rns[2])
    /\ GroupHits(input.rns[2]) = {5, 8}
    /\ fin_stats.skipped = 1
    /\ Len(fin_ops) = 1
    /\ fin_ops[1].operation_type = <<"dividend">>

\* The label of the row is empty.
EmptyLabel(rn) == Strip(RawLabel(rn)) = <<>>

\* The comment of the row is empty.
EmptyComment(rn) == Strip(OrEmpty(rn.comment)) = <<>>

\* The comment contains an entry of the ignore list, letter case aside.
CommentIgnored(rn) ==
    \E sp \in SKIP_OPERATIONS : Contains(Lower(sp), Lower(OrEmpty(rn.comment)))

\* C17 as stated: a row with an empty label and an amount of exactly zero is
\* skipped and counted, whatever its comment; and with an empty label the
\* ignore list is matched against the comment.
C17_EmptyLabelZeroAmountSkipped ==
    [][(AtFinRow /\ EmptyLabel(NextRn)) =>
         /\ AmountOf(NextRn.volume) = 0 => CountedSkipped
         /\ CommentIgnored(NextRn) => CountedSkipped]_vars

\* C17 amended: a row with an empty label, an empty comment and an amount of
\* exactly zero is skipped and counted; and with an empty label the ignore
\* list is matched against the comment.
C17_EmptyRowZeroAmountSkipped ==
    [][(AtFinRow /\ EmptyLabel(NextRn)) =>
         /\ (AmountOf(NextRn.volume) = 0 /\ EmptyComment(NextRn))
              => CountedSkipped
         /\ CommentIgnored(NextRn) => CountedSkipped]_vars

\* After a row without label and comment and with amount zero was skipped, a
\* row without label was skipped for the ignore-list entry in its comment,
\* its amount being 100.
C17_Witness ==
    /\ pc = "fin_scan"
    /\ f_i = 2
    /\ EmptyLabel(input.rns[1])
    /\ EmptyComment(input.rns[1])
    /\ AmountOf(input.rns[1].volume) = 0
    /\ EmptyLabel(input.rns[2])
    /\ CommentIgnored(input.rns[2])
    /\ AmountOf(input.rns[2].volume) = 100
    /\ fin_ops = <<>>
    /\ fin_stats.skipped = 2

(***************************************************************************)
(* Trade identifiers and commissions (specification SpecTrades)            *)
(***************************************************************************)
\* Every row consumed so far emitted a record: record k comes from row k.
EveryRowEmitted == pc \in {"trades_scan", "trades_ret"} /\ Len(trades) = t_i

\* The first whitespace-delimited token of the raw trade-number attribute.
FirstTradeNo(d) == FirstToken(OrEmpty(d.trade_no))

\* How many records of the deduplicated list are one of a and b.
Survivors(ops, a, b) ==
    Cardinality({ i \in DOMAIN DedupeOps(ops) : DedupeOps(ops)[i] \in {a, b} })

\* C18: the operation_id of an emitted trade record is the first
\* whitespace-delimited token of the row's raw trade-number attribute; so two
\* rows whose attributes share the first token and differ later have the same
\* dedup key, and exactly one of them survives deduplication.
C18_FirstTokenIsTheDedupKey ==
    EveryRowEmitted =>
        /\ \A k \in 1..t_i :
              trades[k].operation_id = FirstTradeNo(input.details[k])
        /\ \A j \in 1..t_i, k \in 1..t_i :
              (/\ j < k
               /\ FirstTradeNo(input.details[j]) # <<>>
               /\ FirstTradeNo(input.details[j]) = FirstTradeNo(input.details[k]))
              => /\ OpKey(trades[j]) = OpKey(trades[k])
                 /\ Survivors(trades, trades[j], trades[k]) = 1

\* The sum of the commission attribute over rows.
RECURSIVE SumOfCommission(_)
SumOfCommission(rows) ==
    IF rows = <<>> THEN 0
    ELSE ToFloatSafe(Head(rows).bank_tax) + SumOfCommission(Tail(rows))

\* C19: after a successful trade scan, total_commission is the sum of the
\* commission attribute over all the detail rows seen, whether emitted,
\* skipped for zero quantity or skipped for a missing date.
C19_TotalCommissionOverAllRows ==
    (pc = "trades_ret" /\ ~HasError(trade_stats)) =>
        /\ trade_stats.total_rows = Len(input.details)
        /\ trade_stats.total_commission = SumOfCommission(input.details)

NonEmptyAliases(d) ==
    { i \in DOMAIN TradeDateAliases(d) : Truthy(TradeDateAliases(d)[i]) }

ParsableAliases(d) ==
    { i \in NonEmptyAliases(d) :
        ~ParseDatetimeFromText(TradeDateAliases(d)[i]).none }

\* The scan step skips the row for its date.
CountedNoDate ==
    /\ trades' = trades
    /\ "skipped_no_date" \in DOMAIN trade_stats'
    /\ trade_stats'.skipped_no_date = trade_stats.skipped_no_date + 1

\* The scan step takes the row's date from the alias at place i: the record
\* it emits, if the row's name lets it emit one, has that date, not null.
DatedFrom(d, i) ==
    IF ExtractTickerFromName(OrEmpty(d.p_name)).exc
    THEN trades' = trades
    ELSE /\ TradeAppended
         /\ ~Last(trades').date.none
         /\ Last(trades').date = ParseDatetimeFromText(TradeDateAliases(d)[i])

\* C21 as stated: the date of a trade row (of non-zero quantity) is that of
\* the first non-empty alias in the alias order; if that value does not
\* parse the row is skipped and counted in skipped_no_date, later aliases
\* not being consulted; no emitted record has a null date.
C21_FirstNonEmptyAliasDecides ==
    [][(TradesRow /\ ToIntSafe(NextDetail.qty) # 0) =>
         IF NonEmptyAliases(NextDetail) = {}
            \/ Min(NonEmptyAliases(NextDetail)) \notin ParsableAliases(NextDetail)
         THEN CountedNoDate
         ELSE DatedFrom(NextDetail, Min(NonEmptyAliases(NextDetail)))]_vars

\* C21 amended: the date is that of the first alias in the alias order whose
\* value is non-empty and parses; if no alias has such a value the row is
\* skipped and counted in skipped_no_date; no emitted record has a null date.
C21_FirstParsableAliasDecides ==
    [][(TradesRow /\ ToIntSafe(NextDetail.qty) # 0) =>
         IF ParsableAliases(NextDetail) = {}
         THEN CountedNoDate
         ELSE DatedFrom(NextDetail, Min(ParsableAliases(NextDetail)))]_vars

\* After a row whose two aliases are unparsable was skipped for its date, a
\* row with an unparsable db_time was emitted with the date of its
\* settlement_time.
C21_Witness ==
    /\ pc = "trades_scan"
    /\ t_i = 2
    /\ NonEmptyAliases(input.details[1]) = {1, 2}
    /\ ParsableAliases(input.details[1]) = {}
    /\ NonEmptyAliases(input.details[2]) = {1, 2}
    /\ ParsableAliases(input.details[2]) = {2}
    /\ trade_stats.skipped_no_date = 1
    /\ Len(trades) = 1
    /\ trades[1].date = Naive(3)

(***************************************************************************)
(* Specification: the financial extractor on rows whose amounts have more  *)
(* decimal places than the stats keep                                      *)
(***************************************************************************)
MaxTotalRows == 3

KomissiyaBrokera == Str(<<"Komissiya", WS, "brokera">>)

\* Emitted rows of two types with amounts of 0.00004, 0.00100, -0.00006 and
\* -0.00050, one row of the ignore list and one row the classifier drops.
TotalRns ==
    { Rn(Dividendy, Note, Num(4), Iso(1)),
      Rn(Dividendy, Note, Num(100), Iso(1)),
      Rn(KomissiyaBrokera, Note, Num(4), Iso(1)),
      Rn(KomissiyaBrokera, Note, Num(-6), Iso(1)),
      Rn(KomissiyaBrokera, Note, Num(-50), Iso(1)),
      Rn(Str(<<"Perevod", "y", WS, "mezhdu", WS, "ploshchadkami">>), Note,
         Num(100), Iso(1)),
      Rn(Perevod, Str(<<"perevod", WS, "denezhnyh", WS, "sredstv">>),
         Num(-50), Iso(1)) }

TotalInputs ==
    [kind : {"xmlstr"}, malformed : BOOLEAN, details : {<<>>},
     rns : SeqsUpTo(TotalRns, MaxTotalRows)]

InitTotals == \E inp \in TotalInputs : Start(inp, "fin_read")

NextTotals ==
    \/ FinRead
    \/ FinRow
    \/ FinEnd

SpecTotals == InitTotals /\ [][NextTotals]_vars

(***************************************************************************)
(* Properties of the running totals (specification SpecTotals)             *)
(***************************************************************************)
\* The sum of the amounts of the records of `ops` at the positions in I.
RECURSIVE SumOver(_, _)
SumOver(ops, I) ==
    IF I = {} THEN 0
    ELSE LET i == CHOOSE j \in I : TRUE
         IN  ops[i].payment_sum + SumOver(ops, I \ {i})

\* The sum of the values of the function m at the keys in K.
RECURSIVE SumOfTotals(_, _)
SumOfTotals(m, K) ==
    IF K = {} THEN 0
    ELSE LET k == CHOOSE j \in K : TRUE
         IN  m[k] + SumOfTotals(m, K \ {k})

PositiveRows(ops) == { i \in DOMAIN ops : ops[i].payment_sum > 0 }
NegativeRows(ops) == { i \in DOMAIN ops : ops[i].payment_sum < 0 }
RowsOfType(ops, t) == { i \in DOMAIN ops : ops[i].operation_type = t }
TypesOf(ops) == { ops[i].operation_type : i \in DOMAIN ops }

\* The financial scan has returned its records and the stats of lines 417-427.
FinSucceeded ==
    /\ pc = "fin_ret"
    /\ ~HasError(fin_stats)
    /\ "amounts_by_mapped_type" \in DOMAIN fin_stats

\* No returned amount has more than four decimal places.
FourDecimalPlaces(ops) == \A i \in DOMAIN ops : ops[i].payment_sum % 10 = 0

\* C22 as stated: after a successful financial scan total_income is the sum
\* of the positive and total_expense the sum of the negative amounts of the
\* emitted rows, each per-type total is the sum of the amounts of the emitted
\* rows of that type, and the per-type totals add up to
\* total_income + total_expense; skipped rows are in no total.
C22_TotalsAreSumsOfEmittedRows ==
    FinSucceeded =>
        /\ fin_stats.total_income = SumOver(fin_ops, PositiveRows(fin_ops))
        /\ fin_stats.total_expense = SumOver(fin_ops, NegativeRows(fin_ops))
        /\ DOMAIN fin_stats.amounts_by_mapped_type = TypesOf(fin_ops)
        /\ \A t \in TypesOf(fin_ops) :
              fin_stats.amounts_by_mapped_type[t]
                 = SumOver(fin_ops, RowsOfType(fin_ops, t))
        /\ SumOfTotals(fin_stats.amounts_by_mapped_type,
                       DOMAIN fin_stats.amounts_by_mapped_type)
              = fin_stats.total_income + fin_stats.total_expense

\* C22, amended: after a successful financial scan each exposed total is the
\* sum over the emitted rows only (all positive amounts, all negative
\* amounts, all amounts of one type) rounded to four decimal places, ties to
\* even; the per-type totals add up to total_income + total_expense when no
\* emitted amount has more than four decimal places; skipped and dropped
\* rows are in no total.
C22_TotalsAreRoundedSumsOfEmittedRows ==
    FinSucceeded =>
        /\ fin_stats.total_income
              = 10 * RoundHalfEven(SumOver(fin_ops, PositiveRows(fin_ops)))
        /\ fin_stats.total_expense
              = 10 * RoundHalfEven(SumOver(fin_ops, NegativeRows(fin_ops)))
        /\ DOMAIN fin_stats.amounts_by_mapped_type = TypesOf(fin_ops)
        /\ \A t \in TypesOf(fin_ops) :
              fin_stats.amounts_by_mapped_type[t]
                 = 10 * RoundHalfEven(SumOver(fin_ops, RowsOfType(fin_ops, t)))
        /\ FourDecimalPlaces(fin_ops) =>
              SumOfTotals(fin_stats.amounts_by_mapped_type,
                          DOMAIN fin_stats.amounts_by_mapped_type)
                 = fin_stats.total_income + fin_stats.total_expense

\* A successful scan of three rows: an income row and an expense row are
\* emitted, each with four decimal places at most, and a row with a non-zero
\* amount is skipped or dropped.
C22_Witness ==
    /\ FinSucceeded
    /\ fin_stats.total_rows = 3
    /\ fin_stats.parsed = 2
    /\ fin_stats.skipped = 1
    /\ FourDecimalPlaces(fin_ops)
    /\ PositiveRows(fin_ops) # {}
    /\ NegativeRows(fin_ops) # {}
    /\ \A i \in 1..3 : AmountOf(input.rns[i].volume) # 0
    /\ fin_stats.total_income > 0
    /\ fin_stats.total_expense < 0

(***************************************************************************)
(* Row accounting of the three extractors (specification Spec)             *)
(***************************************************************************)
\* The trade stats are the counters of a scan in progress or of a
\* successful result, not the {"error": ...} dict.
TradeCounting == "total_rows" \in DOMAIN trade_stats

\* The transfer stats are the extractor's counters: not its error dict and
\* not the {"parsed": 0, "total_rows": 0} that parse_full_statement_xml puts
\* in place of a failed transfer extraction.
TransferCounting == "skipped_not_conversion" \in DOMAIN transfer_stats

\* The financial accumulators of a scan in progress.
FinScanning == "parsed" \notin DOMAIN fin_stats

\* Every Details element counted by the trade extractor is in one counter.
TradeRowsConserved ==
    TradeCounting =>
        /\ trade_stats.total_rows
              = trade_stats.parsed + trade_stats.skipped_no_qty
                + trade_stats.skipped_no_date + trade_stats.skipped_invalid
        /\ trade_stats.parsed = Len(trades)

\* Every Details element counted by the transfer extractor is in one counter.
TransferRowsConserved ==
    TransferCounting =>
        /\ transfer_stats.total_rows
              = transfer_stats.parsed + transfer_stats.skipped_not_conversion
                + transfer_stats.skipped_no_qty
                + transfer_stats.skipped_no_date
                + transfer_stats.skipped_invalid
        /\ transfer_stats.parsed = Len(transfers)

\* Every rn node counted by the financial extractor is emitted or skipped;
\* `parsed` is len(ops), computed when the stats are built.
FinRowsConserved ==
    /\ FinScanning =>
          fin_stats.total_rows = Len(fin_ops) + fin_stats.skipped
    /\ (~FinScanning /\ ~HasError(fin_stats)) =>
          /\ fin_stats.total_rows = fin_stats.parsed + fin_stats.skipped
          /\ fin_stats.parsed = Len(fin_ops)

\* C23: row accounting is conserved in every extractor.  After every row of
\* a scan and in every successful result, total_rows = parsed +
\* skipped_no_qty + skipped_no_date + skipped_invalid for trades,
\* total_rows = parsed + skipped_not_conversion + skipped_no_qty +
\* skipped_no_date + skipped_invalid for transfers, total_rows = parsed +
\* skipped for financial rows, and parsed is the length of the record list.
C23_RowAccountingConserved ==
    /\ TradeRowsConserved
    /\ TransferRowsConserved
    /\ FinRowsConserved

\* All three extractors have succeeded on two Details elements and two rn
\* nodes; each has counted a row it emitted or a row it skipped, and the
\* trade and financial extractors have done both.
C23_Witness ==
    /\ TradeCounting
    /\ TransferCounting
    /\ ~FinScanning
    /\ ~HasError(fin_stats)
    /\ trade_stats.total_rows = 2
    /\ trade_stats.parsed = 1
    /\ trade_stats.skipped_no_qty = 1
    /\ transfer_stats.total_rows = 2
    /\ transfer_stats.skipped_not_conversion = 2
    /\ fin_stats.total_rows = 2
    /\ fin_stats.parsed = 1
    /\ fin_stats.skipped = 1

=============================================================================
